---- MODULE Spec2Model ----
(***************************************************************************)
(* Business-rule tracking of the Medusa e-commerce example.                *)
(*                                                                         *)
(* The subscribers (handleCartUpdated, handleOrderPlaced,                  *)
(* handleReturnRequested) are translated from the TypeScript sources.      *)
(* They run on Node's single thread: an invocation runs without            *)
(* interruption from one await to the next, and invocations interleave at  *)
(* their awaits.  The ensure() engine they call (run store, dependency     *)
(* resolver, validator executor) is an external package; it is modelled    *)
(* from sections 3 to 7 of the specification.  One ensure() call records   *)
(* the event, then resolves its dependencies and evaluates it, before it   *)
(* returns.  Spec runs the subscribers; SpecEngine calls ensure() directly *)
(* and shows its two steps.                                                *)
(***************************************************************************)
EXTENDS Integers, Sequences, FiniteSets, TLC

\* Bounds of the model.
MaxInv == 2
MaxCalls == 3
MaxInitCalls == 4
MaxHelperCalls == 2

VARIABLES
    store,      \* run store: the set of stored events
    occs,       \* every occurrence created by an ensure() call, in call order
    pending,    \* the direct ensure() call in progress (SpecEngine), or <<>>
    cur,        \* occurrence recorded and not yet evaluated (0: none)
    escaped,    \* TRUE once an exception left ensure() towards its caller
    inv,        \* subscriber invocations, in the order the event bus started them
    orderSrc,   \* which copy of the subscribers is loaded: backend/src/subscribers
                \* or the copies of cart-updated.ts and order-placed.ts in src/unnamed
    env,        \* process.env: BUSINESS_USE_API_KEY and BUSINESS_USE_URL
    initialized, \* modules/business-use: let initialized
    sdk,        \* the configurations the SDK's initialize() was called with
    initCalls,  \* number of calls of initializeBusinessUse so far
    helperCalls \* the calls of BusinessUseHelpers made so far, with their results

\* State of modules/business-use and of what it reads and calls.
buVars == <<env, initialized, sdk, initCalls, helperCalls>>

vars == <<store, occs, pending, cur, escaped, inv, orderSrc, buVars>>

---------------------------------------------------------------------------
(* Run store (spec 4.2).                                                   *)

Absent == [absent |-> TRUE]

KeyOfNoRun(e) == <<e.flow, e.id>>

KeyOf(e) == <<e.flow, e.runId, e.id>>

Get(st, flow, runId, nodeId) ==
    LET k == KeyOf([flow |-> flow, runId |-> runId, id |-> nodeId])
    IN  IF \E e \in st : KeyOf(e) = k
        THEN CHOOSE e \in st : KeyOf(e) = k
        ELSE Absent

\* A store that appends instead of replacing the event of the same key.
RecordAppend(st, ev) == st \cup {ev}

\* A store that keeps the first event of a key (insert-if-absent).
RecordKeepFirst(st, ev) ==
    IF \E e \in st : KeyOf(e) = KeyOf(ev) THEN st ELSE st \cup {ev}

Record(st, ev) == {e \in st : KeyOf(e) # KeyOf(ev)} \cup {ev}

AllForRun(st, flow, runId) == {e \in st : e.flow = flow /\ e.runId = runId}

---------------------------------------------------------------------------
(* Dependency resolver (spec 4.3): one entry per depId, the event or       *)
(* Absent; ctx.deps is the sequence of the events that were found.         *)

ResolveAnyRun(st, flow, runId, depIds) ==
    [i \in DOMAIN depIds |->
        IF \E e \in st : e.flow = flow /\ e.id = depIds[i]
        THEN CHOOSE e \in st : e.flow = flow /\ e.id = depIds[i]
        ELSE Absent]

Resolve(st, flow, runId, depIds) ==
    [i \in DOMAIN depIds |-> Get(st, flow, runId, depIds[i])]

\* ctx.deps with a placeholder entry for every absent dependency.
CtxDepsPlaceholders(resolved, depIds) ==
    [i \in DOMAIN resolved |->
        IF resolved[i] = Absent
        THEN [id |-> depIds[i], data |-> Absent]
        ELSE [id |-> resolved[i].id, data |-> resolved[i].data]]

CtxDeps(resolved, depIds) ==
    LET found == SelectSeq(resolved, LAMBDA e : e # Absent)
    IN  [i \in DOMAIN found |-> [id |-> found[i].id, data |-> found[i].data]]

DepIdsSeen(deps) == {deps[i].id : i \in DOMAIN deps}

\* Array.prototype.find(dep => dep.id === id): the first match, or Absent.
FindDep(deps, id) ==
    IF \E i \in DOMAIN deps : deps[i].id = id
    THEN deps[CHOOSE i \in DOMAIN deps :
                /\ deps[i].id = id
                /\ \A j \in DOMAIN deps : deps[j].id = id => i <= j]
    ELSE Absent

---------------------------------------------------------------------------
(* Validators: the closures passed to ensure().  Each yields "pass",       *)
(* "fail", or "throw" when the closure raises.                             *)

NoValidator == "none"

Verdict(b) == IF b THEN "pass" ELSE "fail"

Abs(n) == IF n < 0 THEN -n ELSE n

\* JavaScript values carry their kind.  A numeric field read from a Medusa
\* record is a number, undefined or NaN; a field the code guards with || 0 or
\* computes from guarded ones is an integer of the model.
JsUndefined == [kind |-> "undefined"]

JsNaN == [kind |-> "NaN"]

JsNumber(n) == [kind |-> "number", value |-> n]

IsNumber(x) == x.kind = "number"

\* x || 0: undefined, NaN and 0 are falsy
OrZero(x) == IF IsNumber(x) THEN x.value ELSE 0

\* Number(x): NaN for undefined
Number(x) == IF IsNumber(x) THEN x ELSE JsNaN

\* x === 0
IsZero(x) == IsNumber(x) /\ x.value = 0

\* cart-updated.ts: item_count > 0 && total > 0
CartValidatedValidator(data) == Verdict(data.item_count > 0 /\ data.total > 0)

\* the unnamed copy of cart-updated.ts: item_count > 0
CartValidatedItemsValidator(data) == Verdict(data.item_count > 0)

\* A limit that excludes 30% itself.
DiscountValidatorStrict(data) ==
    Verdict(data.discount_percent[1] * 100 < 30 * data.discount_percent[2])

\* cart-updated.ts: discount_percent <= 0.30, the quotient kept as <<num, den>>
DiscountValidator(data) ==
    Verdict(data.discount_percent[1] * 100 <= 30 * data.discount_percent[2])

\* cart-updated.ts: has_free_shipping ? subtotal >= 5000 : true
\* undefined >= 5000 and NaN >= 5000 are false
FreeShippingValidator(data) ==
    Verdict(IF data.has_free_shipping
            THEN IsNumber(data.subtotal) /\ data.subtotal.value >= 5000
            ELSE TRUE)

\* order-placed.ts: tax_total >= 0
TaxValidator(data) == Verdict(data.tax_total >= 0)

\* order-placed.ts: Math.abs(order_total - payment_total) < 100
PaymentValidator(data) == Verdict(Abs(data.order_total - data.payment_total) < 100)

\* order-placed.ts: ordered_quantity > 0, ordered_quantity being item.quantity
InventoryValidator(data) ==
    Verdict(IsNumber(data.ordered_quantity) /\ data.ordered_quantity.value > 0)

\* A validator that reads the dependency without checking that it was found.
OrderConfirmedValidatorUnguarded(data, deps) ==
    LET paymentDep == FindDep(deps, "payment_amount_validation")
    IN  IF paymentDep = Absent THEN "throw"
        ELSE Verdict(/\ IsNumber(data.order_total)
                     /\ Abs(data.order_total.value
                            - paymentDep.data.payment_total) < 100)

\* order-placed.ts: paymentDep ? |order_total - paymentDep.data.payment_total| < 100 : false
\* Reading a field of a dependency that carries no data raises a TypeError.
\* order_total is Number(order.total): with NaN (or undefined) the difference
\* is NaN, and NaN < 100 is false.
OrderConfirmedValidator(data, deps) ==
    LET paymentDep == FindDep(deps, "payment_amount_validation")
    IN  IF paymentDep = Absent THEN "fail"
        ELSE IF paymentDep.data = Absent THEN "throw"
        ELSE Verdict(/\ IsNumber(data.order_total)
                     /\ Abs(data.order_total.value
                            - paymentDep.data.payment_total) < 100)

\* loyalty-tracking.ts: (lifetime_spent >= 100000 || order_count >= 5) === should_be_vip
VipStatusValidator(data) ==
    Verdict((data.lifetime_spent >= 100000 \/ data.order_count >= 5)
            = data.should_be_vip)

\* loyalty-tracking.ts: earned_points === Math.floor(order_total / 100) * multiplier
\* With order_total undefined the right-hand side is NaN, which equals nothing.
PointsEarnedValidator(data) ==
    IF ~IsNumber(data.order_total)
    THEN "fail"
    ELSE Verdict(data.earned_points
                 = (data.order_total.value \div 100) * data.multiplier)

\* handleInventoryUpdate: total_stock >= 0
StockLevelValidator(data) == Verdict(data.total_stock >= 0)

\* An alert validator that wants the stock below the threshold.
LowStockValidatorStrict(data) == Verdict(data.current_stock < data.threshold)

\* handleInventoryUpdate: current_stock <= threshold
LowStockValidator(data) == Verdict(data.current_stock <= data.threshold)

\* handleInventoryUpdate: reorder_quantity >= avg_monthly_sales * 3
ReorderValidator(data) ==
    Verdict(data.reorder_quantity >= data.avg_monthly_sales * 3)

\* Validators of the direct ensure() calls of SpecEngine (spec section 8):
\* data.ok; ctx.deps.find(d => d.id === 'x')?.data.ok; a closure that throws.
DataOkValidator(data) == Verdict(data.ok)

DepXOkValidator(deps) ==
    LET x == FindDep(deps, "x")
    IN  IF x = Absent THEN "fail"
        ELSE IF x.data = Absent THEN "throw"
        ELSE Verdict(x.data.ok)

RunValidator(v, data, deps) ==
    CASE v = "cart_validated" -> CartValidatedValidator(data)
      [] v = "cart_validated_items" -> CartValidatedItemsValidator(data)
      [] v = "discount_validation" -> DiscountValidator(data)
      [] v = "free_shipping_eligibility" -> FreeShippingValidator(data)
      [] v = "tax_calculated" -> TaxValidator(data)
      [] v = "payment_amount_validation" -> PaymentValidator(data)
      [] v = "inventory_reserved" -> InventoryValidator(data)
      [] v = "order_confirmed" -> OrderConfirmedValidator(data, deps)
      [] v = "vip_status_check" -> VipStatusValidator(data)
      [] v = "points_earned" -> PointsEarnedValidator(data)
      [] v = "stock_level_checked" -> StockLevelValidator(data)
      [] v = "low_stock_alert" -> LowStockValidator(data)
      [] v = "reorder_triggered" -> ReorderValidator(data)
      [] v = "data_ok" -> DataOkValidator(data)
      [] v = "dep_x_ok" -> DepXOkValidator(deps)
      [] v = "throws" -> "throw"

---------------------------------------------------------------------------
(* Validator executor (spec 4.4, 7): no validator leaves the event with    *)
(* no pass/fail status; a fault raised by the validator is caught and      *)
(* becomes the failed outcome "error".                                     *)

\* An executor without the catch: the fault leaves ensure().
EvaluateUncaught(call, deps) ==
    IF call.validator = NoValidator
    THEN [status |-> "Recorded", propagated |-> FALSE]
    ELSE LET r == RunValidator(call.validator, call.data, deps)
         IN  IF r = "throw"
             THEN [status |-> "Recorded", propagated |-> TRUE]
             ELSE [status |-> r, propagated |-> FALSE]

Evaluate(call, deps) ==
    IF call.validator = NoValidator
    THEN [status |-> "Recorded", propagated |-> FALSE]
    ELSE LET r == RunValidator(call.validator, call.data, deps)
         IN  [status |-> IF r = "throw" THEN "error" ELSE r,
              propagated |-> FALSE]

Evaluated == {"pass", "fail", "error"}

Violation(status) == status \in {"fail", "error"}

---------------------------------------------------------------------------
(* Inputs: what Medusa's modules return to the subscribers.                *)

CartIds == {"c1"}
OrderIds == {"o1"}
ReturnIds == {"r1"}

\* A shipping method of a cart.
Method(amount, price) == [amount |-> amount, price |-> price]

\* <<number of items, subtotal, total, shipping methods, shipping_total>> of a
\* retrieved cart, amounts in cents.  The last cart ships free by the price
\* of its method and has no shipping_total.
CartShapes ==
    {<<0, JsNumber(0), JsNumber(0), <<>>, JsNumber(0)>>,
     <<1, JsNumber(100), JsNumber(100),
       <<Method(JsNumber(0), JsUndefined)>>, JsNumber(0)>>,
     <<1, JsNumber(100), JsNumber(60), <<>>, JsNumber(0)>>,
     <<2, JsNumber(6000), JsNumber(6000),
       <<Method(JsNumber(500), JsNumber(0))>>, JsUndefined>>}

\* Carts for the rules of handleCartUpdated taken alone: discounts of 29.9%,
\* 30%, 31%, 40% and 100%, a total that is 0 or missing, an empty cart, a
\* subtotal that is missing under a free method, methods none of which is
\* free, and a free method that follows one that is not.
WideCartShapes ==
    CartShapes \cup
    {<<1, JsNumber(100), JsNumber(70), <<>>, JsNumber(0)>>,
     <<1, JsNumber(100), JsNumber(69), <<>>, JsNumber(0)>>,
     <<3, JsNumber(1000), JsNumber(701), <<>>, JsNumber(0)>>,
     <<1, JsNumber(100), JsNumber(0), <<>>, JsNumber(0)>>,
     <<1, JsNumber(100), JsUndefined, <<>>, JsNumber(0)>>,
     <<0, JsNumber(100), JsNumber(100), <<>>, JsNumber(0)>>,
     <<1, JsUndefined, JsNumber(100),
       <<Method(JsNumber(0), JsUndefined)>>, JsNumber(0)>>,
     <<2, JsNumber(6000), JsNumber(6000),
       <<Method(JsNumber(500), JsUndefined)>>, JsNumber(500)>>,
     <<2, JsNumber(6000), JsNumber(6000),
       <<Method(JsNumber(500), JsUndefined), Method(JsUndefined, JsNumber(0))>>,
       JsNumber(500)>>}

\* cart.items is kept as its length, the only thing the subscriber reads.
Carts(id) ==
    {[id |-> id, items |-> a[1], subtotal |-> a[2], total |-> a[3],
      shipping_methods |-> a[4], shipping_total |-> a[5]] : a \in CartShapes}

\* A line item; "" stands for a text field that is undefined (both are
\* falsy in the code).
Item(id, quantity, product_title, title) ==
    [id |-> id, product_title |-> product_title, title |-> title,
     quantity |-> quantity, variant_id |-> "v1"]

\* <<items, customer_id, payment_total>> of a retrieved order.  The last
\* item has a title and no product_title.
OrderShapes ==
    {<< <<>>, "", 108 >>,
     << <<Item("i1", JsNumber(1), "Shirt", "Blue shirt")>>, "cus1", 300 >>,
     << <<Item("i1", JsNumber(0), "Shirt", "Blue shirt"),
          Item("i2", JsNumber(2), "", "Plain tee")>>, "", 108 >>}

TaxTotals == {8}

Orders(id) ==
    {[id |-> id, cart_id |-> c, tax_total |-> JsNumber(t),
      subtotal |-> JsNumber(100), total |-> JsNumber(100 + t),
      payment_total |-> JsNumber(sh[3]), items |-> sh[1],
      customer_id |-> sh[2], email |-> "a@example.com", currency_code |-> "usd",
      status |-> "pending", payment_status |-> "captured",
      fulfillment_status |-> "not_fulfilled"] :
        c \in {""} \cup CartIds, t \in TaxTotals, sh \in OrderShapes}

\* Lengths of the list orderModuleService.listOrders returns.
OrderCounts == {1}

\* order.return_requested payloads; return_id may be undefined.
ReturnEvents == {[id |-> r, return_id |-> x] : r \in ReturnIds, x \in {"", "ret9"}}

WideCarts(id) ==
    {[id |-> id, items |-> a[1], subtotal |-> a[2], total |-> a[3],
      shipping_methods |-> a[4], shipping_total |-> a[5]] : a \in WideCartShapes}

\* Orders retrieved by handleLoyaltyTracking: a guest order, and orders of
\* customer cus1 whose total is missing, 199 or 100000 cents.
LoyaltyOrders(id) ==
    {[id |-> id, customer_id |-> "", total |-> JsNumber(250)]}
    \cup {[id |-> id, customer_id |-> "cus1", total |-> t] :
            t \in {JsUndefined, JsNumber(199), JsNumber(100000)}}

Customers(id) == {[id |-> id, email |-> "a@example.com"]}

\* A list of records of which the code reads one numeric field, kept as
\* the sequence of that field's values.
Numbers(ns) == [i \in DOMAIN ns |-> JsNumber(ns[i])]

\* The totals of the orders listOrders returns for the customer.
OrderHistories ==
    {<<>>,
     Numbers(<<250>>),
     Numbers(<<99999>>),
     Numbers(<<100000>>),
     <<JsNumber(50000), JsUndefined, JsNumber(50000)>>,
     Numbers(<<1, 1, 1, 1>>),
     <<JsNumber(0), JsUndefined, JsNumber(0), JsUndefined, JsNumber(0)>>}

\* Orders for the rules tax_calculated, payment_amount_validation and
\* order_confirmed taken alone: the payment differs from the total (108) by
\* 0, 99 and 100 cents, either way, or is missing; and orders of which the
\* total, or the tax and the subtotal, are missing.
PaymentTotals == {8, 9, 108, 207, 208}

ConfirmOrders(id) ==
    LET plain == {x \in Orders(id) : x.items = <<>>}
    IN  {[o EXCEPT !.payment_total = pt] :
            o \in plain, pt \in {JsNumber(n) : n \in PaymentTotals} \cup {JsUndefined}}
        \cup {[o EXCEPT !.total = JsUndefined, !.payment_total = pt] :
                o \in plain, pt \in {JsNumber(8), JsNumber(108)}}
        \cup {[o EXCEPT !.tax_total = JsUndefined, !.subtotal = JsUndefined] :
                o \in plain}

InventoryItemIds == {"iitem1"}

InventoryItems(id) == {[id |-> id]}

\* The stocked_quantity of the levels listInventoryLevels returns.
LevelLists ==
    {<<>>,
     Numbers(<<0>>),
     <<JsUndefined>>,
     Numbers(<<-1>>),
     Numbers(<<4>>),
     Numbers(<<5>>),
     Numbers(<<2, 2>>),
     <<JsNumber(3), JsUndefined, JsNumber(2)>>,
     Numbers(<<20>>)}

NoLocal == [none |-> TRUE]

---------------------------------------------------------------------------
(* Run ids.                                                                *)

\* modules/business-use: BusinessUseHelpers
getOrderRunId(orderId) == "order_" \o orderId

getReturnRunId(returnId) == "return_" \o returnId

\* A loyalty run that takes the run id of the order.
getLoyaltyRunIdOfOrder(customerId, orderId) == "order_" \o orderId

getLoyaltyRunId(customerId, orderId) == "loyalty_" \o customerId \o "_" \o orderId

getInventoryRunId(variantId) == "inventory_" \o variantId

\* cart-updated.ts: const runId = `cart_${cart.id}`
CartRunId(cart) == "cart_" \o cart.id

\* order-placed.ts: order.cart_id ? `cart_${order.cart_id}` : getOrderRunId(order.id)
\* the unnamed copy of the subscriber: getOrderRunId(order.id)
OrderRunId(order, src) ==
    IF src = "backend" /\ order.cart_id # ""
    THEN "cart_" \o order.cart_id
    ELSE getOrderRunId(order.id)

---------------------------------------------------------------------------
(* The ensure() calls of handleCartUpdated, in program order.              *)

Call(id, flow, runId, data, depIds, validator) ==
    [id |-> id, flow |-> flow, runId |-> runId, data |-> data,
     depIds |-> depIds, validator |-> validator]

CartValidatedCall(cart) ==
    Call("cart_validated", "checkout", CartRunId(cart),
         [cart_id |-> cart.id, item_count |-> cart.items,
          subtotal |-> OrZero(cart.subtotal), total |-> OrZero(cart.total)],
         <<>>, "cart_validated")

\* The validator of cart_validated in either copy of the subscriber.
CartValidatedValidatorOf(src) ==
    IF src = "backend" THEN "cart_validated" ELSE "cart_validated_items"

DiscountCall(cart) ==
    LET subtotal == OrZero(cart.subtotal)
        total == OrZero(cart.total)
        discountAmount == subtotal - total
        discountPercent == IF subtotal > 0 THEN <<discountAmount, subtotal>>
                           ELSE <<0, 1>>
    IN  Call("discount_validation", "checkout", CartRunId(cart),
             [cart_id |-> cart.id, subtotal |-> subtotal, total |-> total,
              total_discount |-> discountAmount,
              discount_percent |-> discountPercent],
             <<"cart_validated">>, "discount_validation")

\* cart.shipping_methods.find(m => m.amount === 0 || m.price === 0) finds one
HasFreeShipping(cart) ==
    \E i \in DOMAIN cart.shipping_methods :
        \/ IsZero(cart.shipping_methods[i].amount)
        \/ IsZero(cart.shipping_methods[i].price)

\* subtotal: cart.subtotal in cart-updated.ts, Number(cart.subtotal) in the
\* unnamed copy; shipping_total: cart.shipping_total || 0
FreeShippingCall(cart, src) ==
    Call("free_shipping_eligibility", "checkout", CartRunId(cart),
         [cart_id |-> cart.id,
          subtotal |-> IF src = "backend" THEN cart.subtotal
                       ELSE Number(cart.subtotal),
          has_free_shipping |-> TRUE,
          shipping_total |-> OrZero(cart.shipping_total)],
         <<"cart_validated">>, "free_shipping_eligibility")

handleCartUpdatedCalls(cart, src) ==
    <<[CartValidatedCall(cart) EXCEPT !.validator = CartValidatedValidatorOf(src)]>>
    \o (IF cart.items > 0 /\ OrZero(cart.subtotal) - OrZero(cart.total) > 0
        THEN <<DiscountCall(cart)>> ELSE <<>>)
    \o (IF Len(cart.shipping_methods) > 0 /\ HasFreeShipping(cart)
        THEN <<FreeShippingCall(cart, src)>> ELSE <<>>)

---------------------------------------------------------------------------
(* The ensure() calls of handleOrderPlaced.  src is "backend" for          *)
(* backend/src/subscribers/order-placed.ts and "unnamed" for the other     *)
(* copy of the subscriber, which declares no dependency on cart_validated. *)

\* Rules 4, 6 and 7 depending on the confirmation that depends on them.
CartDepCyclic(src) == <<"cart_validated", "order_confirmed">>

CartDep(src) == IF src = "backend" THEN <<"cart_validated">> ELSE <<>>

TaxCall(order, src) ==
    Call("tax_calculated", "checkout", OrderRunId(order, src),
         [order_id |-> order.id, tax_total |-> OrZero(order.tax_total),
          subtotal |-> OrZero(order.subtotal),
          has_tax |-> OrZero(order.tax_total) > 0],
         CartDep(src), "tax_calculated")

PaymentCall(order, src) ==
    Call("payment_amount_validation", "checkout", OrderRunId(order, src),
         [order_id |-> order.id, order_total |-> OrZero(order.total),
          payment_total |-> OrZero(order.payment_total),
          currency |-> order.currency_code],
         <<"tax_calculated">>, "payment_amount_validation")

\* A node id of its own for every item.
InventoryNodeIdPerItem(item) == "inventory_reserved_" \o item.id

InventoryNodeId(item) == "inventory_reserved"

InventoryCall(order, item, src) ==
    Call(InventoryNodeId(item), "checkout", OrderRunId(order, src),
         [order_id |-> order.id, item_id |-> item.id,
          product_title |-> IF item.product_title # "" THEN item.product_title
                            ELSE item.title,
          ordered_quantity |-> item.quantity, variant_id |-> item.variant_id],
         CartDep(src), "inventory_reserved")

InventoryCalls(order, src) ==
    [i \in DOMAIN order.items |-> InventoryCall(order, order.items[i], src)]

\* A customer_orders call that carries the validator of order_confirmed.
CustomerOrdersValidatorCopied == "order_confirmed"

CustomerOrdersValidator == NoValidator

CustomerOrdersCall(order, src, isFirstOrder, totalOrders) ==
    Call("customer_orders", "checkout", OrderRunId(order, src),
         [order_id |-> order.id, customer_id |-> order.customer_id,
          customer_email |-> order.email, is_first_order |-> isFirstOrder,
          total_orders |-> totalOrders],
         CartDep(src), CustomerOrdersValidator)

orderConfirmDepIds ==
    <<"customer_orders", "tax_calculated", "payment_amount_validation",
      "first_order_discount_check", "inventory_reserved">>

OrderConfirmedCall(order, src, now) ==
    Call("order_confirmed", "checkout", OrderRunId(order, src),
         [order_id |-> order.id, order_total |-> Number(order.total),
          status |-> order.status, payment_status |-> order.payment_status,
          fulfillment_status |-> order.fulfillment_status,
          confirmed_at |-> now],
         orderConfirmDepIds, "order_confirmed")

\* Up to the await of listOrders: rules 4 to 6.
OrderFirstCalls(order, src) ==
    <<TaxCall(order, src), PaymentCall(order, src)>> \o InventoryCalls(order, src)

\* The confirmation issued before the customer's order history.
OrderLastCallsConfirmFirst(order, src, isFirstOrder, totalOrders, now) ==
    <<OrderConfirmedCall(order, src, now),
      CustomerOrdersCall(order, src, isFirstOrder, totalOrders)>>

\* After it: rules 7 and 8.
OrderLastCalls(order, src, isFirstOrder, totalOrders, now) ==
    <<CustomerOrdersCall(order, src, isFirstOrder, totalOrders),
      OrderConfirmedCall(order, src, now)>>

---------------------------------------------------------------------------
(* The ensure() call of handleReturnRequested.                             *)

ReturnIdOf(data) == IF data.return_id # "" THEN data.return_id ELSE data.id

ReturnRequestedCall(data, now) ==
    Call("return_requested", "returns", getReturnRunId(ReturnIdOf(data)),
         [return_id |-> ReturnIdOf(data), requested_at |-> now],
         <<>>, NoValidator)

---------------------------------------------------------------------------
(* The ensure() calls of handleLoyaltyTracking.  orders is the sequence of *)
(* the totals of the customer's orders, each a number or undefined.        *)

\* orders.reduce((sum, o) => sum + (o.total || 0), 0)
RECURSIVE lifetimeSpent(_)
lifetimeSpent(orders) ==
    IF orders = <<>> THEN 0
    ELSE lifetimeSpent(SubSeq(orders, 1, Len(orders) - 1))
         + OrZero(orders[Len(orders)])

\* A VIP rule that needs more than $1000.
shouldBeVipStrict(spent, orderCount) == spent > 100000 \/ orderCount >= 5

shouldBeVip(spent, orderCount) == spent >= 100000 \/ orderCount >= 5

VipStatusCall(order, customer, orders) ==
    Call("vip_status_check", "loyalty", getLoyaltyRunId(customer.id, order.id),
         [customer_id |-> customer.id, customer_email |-> customer.email,
          lifetime_spent |-> lifetimeSpent(orders), order_count |-> Len(orders),
          should_be_vip |-> shouldBeVip(lifetimeSpent(orders), Len(orders)),
          order_total |-> order.total],
         <<>>, "vip_status_check")

\* Math.floor((order.total || 0) / 100)
basePoints(order) == OrZero(order.total) \div 100

multiplier(vip) == IF vip THEN 2 ELSE 1

PointsEarnedCall(order, customer, orders) ==
    LET vip == shouldBeVip(lifetimeSpent(orders), Len(orders))
    IN  Call("points_earned", "loyalty", getLoyaltyRunId(customer.id, order.id),
             [order_id |-> order.id, customer_id |-> customer.id,
              order_total |-> order.total, base_points |-> basePoints(order),
              multiplier |-> multiplier(vip),
              earned_points |-> basePoints(order) * multiplier(vip),
              is_vip |-> vip],
             <<"vip_status_check">>, "points_earned")

\* The points issued before the VIP check they depend on.
handleLoyaltyTrackingCallsReversed(order, customer, orders) ==
    <<PointsEarnedCall(order, customer, orders),
      VipStatusCall(order, customer, orders)>>

handleLoyaltyTrackingCalls(order, customer, orders) ==
    <<VipStatusCall(order, customer, orders),
      PointsEarnedCall(order, customer, orders)>>

---------------------------------------------------------------------------
(* The ensure() calls of handleInventoryUpdate.  levels is the sequence of *)
(* the stocked quantities of the item's levels, numbers or undefined.      *)

\* levels.reduce((sum, level) => sum + (level.stocked_quantity || 0), 0)
RECURSIVE totalStock(_)
totalStock(levels) ==
    IF levels = <<>> THEN 0
    ELSE totalStock(SubSeq(levels, 1, Len(levels) - 1))
         + OrZero(levels[Len(levels)])

reorderPoint == 20

\* reorderPoint * 0.2: a fifth of it, 4
lowStockThreshold == (reorderPoint * 2) \div 10

\* An alert only below the threshold.
isLowStockBelow(stock) == stock < lowStockThreshold

isLowStock(stock) == stock <= lowStockThreshold

avgMonthlySales == 10

reorderQuantity == avgMonthlySales * 3

StockLevelCall(eventId, item, levels) ==
    Call("stock_level_checked", "inventory", getInventoryRunId(eventId),
         [inventory_item_id |-> item.id, total_stock |-> totalStock(levels),
          is_available |-> totalStock(levels) > 0],
         <<>>, "stock_level_checked")

LowStockCall(eventId, item, levels) ==
    Call("low_stock_alert", "inventory", getInventoryRunId(eventId),
         [inventory_item_id |-> item.id, current_stock |-> totalStock(levels),
          reorder_point |-> reorderPoint, threshold |-> lowStockThreshold,
          is_low_stock |-> isLowStock(totalStock(levels))],
         <<>>, "low_stock_alert")

ReorderCall(eventId, item, levels) ==
    Call("reorder_triggered", "inventory", getInventoryRunId(eventId),
         [inventory_item_id |-> item.id, current_stock |-> totalStock(levels),
          avg_monthly_sales |-> avgMonthlySales,
          reorder_quantity |-> reorderQuantity],
         <<"low_stock_alert">>, "reorder_triggered")

\* The calls made once the levels are known; none for an item without levels.
handleInventoryUpdateCalls(eventId, item, levels) ==
    IF Len(levels) = 0 THEN <<>>
    ELSE <<StockLevelCall(eventId, item, levels)>>
         \o (IF isLowStock(totalStock(levels))
             THEN <<LowStockCall(eventId, item, levels),
                    ReorderCall(eventId, item, levels)>>
             ELSE <<>>)

---------------------------------------------------------------------------
(* ensure(): the engine (spec 2, 4.4).  Every call creates a new           *)
(* occurrence in state Recorded and upserts its event; the occurrence is   *)
(* then evaluated against the dependencies resolved at that moment, and    *)
(* the outcome is attached to it.                                          *)

SameKey(a, b) == a.flow = b.flow /\ a.runId = b.runId /\ a.id = b.id

Occurrence(call) ==
    [flow |-> call.flow, runId |-> call.runId, id |-> call.id,
     data |-> call.data, depIds |-> call.depIds, validator |-> call.validator,
     status |-> "Recorded", deps |-> <<>>]

EventOf(call, n) ==
    [flow |-> call.flow, runId |-> call.runId, id |-> call.id,
     data |-> call.data, status |-> "Recorded", occ |-> n]

\* An engine that takes up the earlier occurrence of the key again.
OccIndexReuse(log, call) ==
    IF \E p \in DOMAIN log : SameKey(log[p], call)
    THEN CHOOSE p \in DOMAIN log : SameKey(log[p], call)
    ELSE Len(log) + 1

OccIndex(log, call) == Len(log) + 1

\* e is the engine's state, [store, occs]; the result adds cur, the
\* occurrence just created.
RecordOp(e, call) ==
    LET n == OccIndex(e.occs, call)
        last == IF n > Len(e.occs) THEN n ELSE Len(e.occs)
    IN  [store |-> Record(e.store, EventOf(call, n)),
         occs |-> [i \in 1..last |-> IF i = n THEN Occurrence(call) ELSE e.occs[i]],
         cur |-> n]

Attach(st, n, status) ==
    {IF e.occ = n THEN [e EXCEPT !.status = status] ELSE e : e \in st}

\* ctx.deps of occurrence n: its depIds resolved in its flow and run.
ResolveOp(e, n) ==
    CtxDeps(Resolve(e.store, e.occs[n].flow, e.occs[n].runId, e.occs[n].depIds),
            e.occs[n].depIds)

\* The result's propagated tells whether an exception leaves ensure().
EvaluateWith(e, n, deps) ==
    LET r == Evaluate(e.occs[n], deps)
    IN  [store |-> Attach(e.store, n, r.status),
         occs |-> [e.occs EXCEPT ![n].status = r.status, ![n].deps = deps],
         propagated |-> r.propagated]

EvaluateOp(e, n) == EvaluateWith(e, n, ResolveOp(e, n))

ensure(e, call) ==
    LET r == RecordOp(e, call)
    IN  EvaluateOp(r, r.cur)

\* A synchronous run of ensure() calls inside a try block: an exception
\* leaving one of them skips the rest.
RECURSIVE RunCalls(_, _)
RunCalls(e, calls) ==
    IF calls = <<>>
    THEN [store |-> e.store, occs |-> e.occs, propagated |-> FALSE]
    ELSE LET r == ensure(e, Head(calls))
         IN  IF r.propagated THEN r ELSE RunCalls(r, Tail(calls))

Engine == [store |-> store, occs |-> occs]

---------------------------------------------------------------------------
(* Subscribers.  container.resolve() is called before the try block; the   *)
(* awaited module calls and the ensure() calls are inside it.  An action   *)
(* is what an invocation does from one await to the next.                  *)

InFlight == {j \in DOMAIN inv : inv[j].pc # "done"}

Invocation(handler, id, resolved, pc) ==
    [handler |-> handler, id |-> id,
     pc |-> IF resolved THEN pc ELSE "done",
     result |-> IF resolved THEN "running" ELSE "rejected",
     local |-> NoLocal, concurrent |-> InFlight]

\* The segment of invocation i that makes `calls` and then reaches pc (an
\* await, or "done"); an exception out of ensure() ends it in the catch block.
Commit(i, invs, r, pc) ==
    /\ store' = r.store
    /\ occs' = r.occs
    /\ escaped' = (escaped \/ r.propagated)
    /\ inv' = IF r.propagated
              THEN [invs EXCEPT ![i].pc = "done", ![i].result = "caught"]
              ELSE [invs EXCEPT ![i].pc = pc,
                                ![i].result = IF pc = "done" THEN "completed"
                                              ELSE "running"]

Segment(i, invs, calls, pc) == Commit(i, invs, RunCalls(Engine, calls), pc)

\* An invocation ends in the catch block: an awaited call threw.
Caught(i) ==
    /\ inv' = [inv EXCEPT ![i].pc = "done", ![i].result = "caught"]
    /\ UNCHANGED <<store, occs, escaped>>

\* cart.updated reaches handleCartUpdated: resolve the cart module, then
\* await retrieveCart.
StartCartUpdated ==
    /\ Len(inv) < MaxInv
    /\ \E id \in CartIds, resolved \in BOOLEAN :
          inv' = Append(inv, Invocation("handleCartUpdated", id, resolved, "retrieveCart"))
    /\ UNCHANGED <<store, occs, pending, cur, escaped, orderSrc, buVars>>

\* retrieveCart returns one of carts, or throws into the catch block.
ResumeCartUpdatedFrom(i, carts) ==
    /\ inv[i].handler = "handleCartUpdated"
    /\ inv[i].pc = "retrieveCart"
    /\ \/ \E cart \in carts :
            Segment(i, [inv EXCEPT ![i].local = cart],
                    handleCartUpdatedCalls(cart, orderSrc), "done")
       \/ /\ inv' = [inv EXCEPT ![i].pc = "done", ![i].result = "caught"]
          /\ UNCHANGED <<store, occs, escaped>>
    /\ UNCHANGED <<pending, cur, orderSrc, buVars>>

ResumeCartUpdated(i) == ResumeCartUpdatedFrom(i, Carts(inv[i].id))

ResumeCartUpdatedWide(i) == ResumeCartUpdatedFrom(i, WideCarts(inv[i].id))

\* order.placed reaches handleOrderPlaced.
StartOrderPlaced ==
    /\ Len(inv) < MaxInv
    /\ \E id \in OrderIds, resolved \in BOOLEAN :
          inv' = Append(inv, Invocation("handleOrderPlaced", id, resolved, "retrieveOrder"))
    /\ UNCHANGED <<store, occs, pending, cur, escaped, orderSrc, buVars>>

\* retrieveOrder returns: rules 4 to 6, and with no customer_id rules 7 and 8
\* in the same segment; otherwise the subscriber awaits listOrders.
ResumeOrderPlaced(i) ==
    /\ inv[i].handler = "handleOrderPlaced"
    /\ inv[i].pc = "retrieveOrder"
    /\ \/ \E order \in Orders(inv[i].id) :
            IF order.customer_id # ""
            THEN Segment(i, [inv EXCEPT ![i].local = order],
                         OrderFirstCalls(order, orderSrc), "listOrders")
            ELSE Segment(i, [inv EXCEPT ![i].local = order],
                         OrderFirstCalls(order, orderSrc)
                         \o OrderLastCalls(order, orderSrc, FALSE, 0, Len(occs)),
                         "done")
       \/ /\ inv' = [inv EXCEPT ![i].pc = "done", ![i].result = "caught"]
          /\ UNCHANGED <<store, occs, escaped>>
    /\ UNCHANGED <<pending, cur, orderSrc, buVars>>

\* A handler without the inner try: the failure of listOrders reaches the
\* outer catch block.
ListOrdersThrowsOuter(i) == Caught(i)

\* listOrders throws into the inner catch, which leaves isFirstOrder = false
\* and totalOrders = 0; rules 7 and 8 follow.
ListOrdersThrows(i) ==
    Segment(i, inv, OrderLastCalls(inv[i].local, orderSrc, FALSE, 0, Len(occs)),
            "done")

\* listOrders returns, or throws.
ResumeListOrders(i) ==
    /\ inv[i].handler = "handleOrderPlaced"
    /\ inv[i].pc = "listOrders"
    /\ \/ \E n \in OrderCounts :
            Segment(i, inv, OrderLastCalls(inv[i].local, orderSrc, n = 1, n, Len(occs)),
                    "done")
       \/ ListOrdersThrows(i)
    /\ UNCHANGED <<pending, cur, orderSrc, buVars>>

\* order.return_requested reaches handleReturnRequested, which awaits nothing.
HandleReturnRequested ==
    /\ Len(inv) < MaxInv
    /\ \E data \in ReturnEvents :
          \/ Segment(Len(inv) + 1,
                     Append(inv, [Invocation("handleReturnRequested", data.id, TRUE, "done")
                                    EXCEPT !.local = data]),
                     <<ReturnRequestedCall(data, Len(occs))>>, "done")
          \/ /\ inv' = Append(inv, Invocation("handleReturnRequested", data.id, FALSE, "done"))
             /\ UNCHANGED <<store, occs, escaped>>
    /\ UNCHANGED <<pending, cur, orderSrc, buVars>>

\* order.placed reaches handleLoyaltyTracking: resolve the order and customer
\* modules, then await retrieveOrder.
StartLoyaltyTracking ==
    /\ Len(inv) < MaxInv
    /\ \E id \in OrderIds, resolved \in BOOLEAN :
          inv' = Append(inv, Invocation("handleLoyaltyTracking", id, resolved, "retrieveOrder"))
    /\ UNCHANGED <<store, occs, pending, cur, escaped, orderSrc, buVars>>

\* retrieveOrder returns: a guest order ends the invocation, otherwise the
\* subscriber awaits retrieveCustomer.
ResumeLoyaltyOrder(i) ==
    /\ inv[i].handler = "handleLoyaltyTracking"
    /\ inv[i].pc = "retrieveOrder"
    /\ \/ \E order \in LoyaltyOrders(inv[i].id) :
            /\ inv' = [inv EXCEPT
                         ![i].local = [order |-> order],
                         ![i].pc = IF order.customer_id = "" THEN "done"
                                   ELSE "retrieveCustomer",
                         ![i].result = IF order.customer_id = "" THEN "completed"
                                       ELSE "running"]
            /\ UNCHANGED <<store, occs, escaped>>
       \/ Caught(i)
    /\ UNCHANGED <<pending, cur, orderSrc, buVars>>

\* retrieveCustomer returns; the subscriber awaits listOrders.
ResumeLoyaltyCustomer(i) ==
    /\ inv[i].handler = "handleLoyaltyTracking"
    /\ inv[i].pc = "retrieveCustomer"
    /\ \/ \E customer \in Customers(inv[i].local.order.customer_id) :
            /\ inv' = [inv EXCEPT
                         ![i].local = [order |-> inv[i].local.order,
                                       customer |-> customer],
                         ![i].pc = "listOrders"]
            /\ UNCHANGED <<store, occs, escaped>>
       \/ Caught(i)
    /\ UNCHANGED <<pending, cur, orderSrc, buVars>>

\* listOrders returns one of histories, or throws: rules 1 and 2.
ResumeLoyaltyOrdersFrom(i, histories) ==
    /\ inv[i].handler = "handleLoyaltyTracking"
    /\ inv[i].pc = "listOrders"
    /\ \/ \E orders \in histories :
            Segment(i, [inv EXCEPT ![i].local =
                            [order |-> inv[i].local.order,
                             customer |-> inv[i].local.customer,
                             orders |-> orders]],
                    handleLoyaltyTrackingCalls(inv[i].local.order,
                                               inv[i].local.customer, orders),
                    "done")
       \/ Caught(i)
    /\ UNCHANGED <<pending, cur, orderSrc, buVars>>

ResumeLoyaltyOrders(i) == ResumeLoyaltyOrdersFrom(i, OrderHistories)

\* With the histories of a first order and of a customer at the VIP threshold.
ResumeLoyaltyOrdersFew(i) ==
    ResumeLoyaltyOrdersFrom(i, {Numbers(<<250>>), Numbers(<<100000>>)})

\* inventory_item.updated reaches handleInventoryUpdate: resolve the inventory
\* module, then await retrieveInventoryItem.
StartInventoryUpdate ==
    /\ Len(inv) < MaxInv
    /\ \E id \in InventoryItemIds, resolved \in BOOLEAN :
          inv' = Append(inv, Invocation("handleInventoryUpdate", id, resolved,
                                        "retrieveInventoryItem"))
    /\ UNCHANGED <<store, occs, pending, cur, escaped, orderSrc, buVars>>

\* retrieveInventoryItem returns; the subscriber awaits listInventoryLevels.
ResumeInventoryItem(i) ==
    /\ inv[i].handler = "handleInventoryUpdate"
    /\ inv[i].pc = "retrieveInventoryItem"
    /\ \/ \E item \in InventoryItems(inv[i].id) :
            /\ inv' = [inv EXCEPT ![i].local = [item |-> item],
                                  ![i].pc = "listInventoryLevels"]
            /\ UNCHANGED <<store, occs, escaped>>
       \/ Caught(i)
    /\ UNCHANGED <<pending, cur, orderSrc, buVars>>

\* listInventoryLevels returns: rules 1 to 3.
ResumeInventoryLevels(i) ==
    /\ inv[i].handler = "handleInventoryUpdate"
    /\ inv[i].pc = "listInventoryLevels"
    /\ \/ \E levels \in LevelLists :
            Segment(i, [inv EXCEPT ![i].local = [item |-> inv[i].local.item,
                                                levels |-> levels]],
                    handleInventoryUpdateCalls(inv[i].id, inv[i].local.item, levels),
                    "done")
       \/ Caught(i)
    /\ UNCHANGED <<pending, cur, orderSrc, buVars>>

---------------------------------------------------------------------------
(* POST /admin/test-checkout (api/admin/test-checkout/route.ts).  The      *)
(* services are resolved before the try block.  What listProducts resolves *)
(* to is destructured as [products]: the handler reads it as a pair of a   *)
(* list and a count, while the other list methods of the repository        *)
(* (listOrders, listInventoryLevels) are read as plain lists; both shapes  *)
(* are inputs.                                                             *)

JsArray(elems) == [kind |-> "array", elems |-> elems]

Variant(id) == [kind |-> "object", id |-> id]

\* A product whose variants relation is `variants`.
Product(id, variants) == [kind |-> "object", id |-> id, variants |-> variants]

ProductShapes ==
    {Product("prod1", JsArray(<<Variant("v1")>>)),
     Product("prod1", JsArray(<<>>)),
     Product("prod1", JsUndefined)}

\* What listProducts({ take: 1 }) resolves to: a pair of a list and a
\* count, a plain list, a list of a count, or nothing.
ListProductsResults ==
    {JsArray(<<JsArray(<<>>), JsNumber(0)>>), JsArray(<<>>),
     JsArray(<<JsNumber(0)>>), JsArray(<<JsNumber(1)>>), JsUndefined}
    \cup {JsArray(<<JsArray(<<p>>), JsNumber(1)>>) : p \in ProductShapes}
    \cup {JsArray(<<p>>) : p \in ProductShapes}

\* Ids createCarts gives to a new cart.
NewCartIds == {"c1", "c2"}

\* x[0] of a value that is not undefined: an element of an array, undefined
\* past its end and for a number or an object without that key
ElementZero(x) ==
    IF x.kind = "array" /\ Len(x.elems) > 0 THEN x.elems[1] ELSE JsUndefined

Thrown == [kind |-> "thrown"]

\* const [x0] = x: the first element of an array; a TypeError for a value
\* that is not iterable (undefined, a number, an object)
DestructureFirst(x) ==
    IF x.kind = "array" THEN ElementZero(x) ELSE Thrown

\* !x for the values above: undefined, 0 and NaN
Falsy(x) == x.kind \in {"undefined", "NaN"} \/ IsZero(x)

\* x.length === 0
LengthIsZero(x) == x.kind = "array" /\ Len(x.elems) = 0

\* route.ts lines 19-37, from the value listProducts resolved to: the status
\* answered, "throw" for a TypeError, or the variant to put in the cart.
\* product.variants with product undefined raises; variants?.[0] does not.
SelectVariant(listed) ==
    LET products == DestructureFirst(listed)
    IN  IF products = Thrown
        THEN [outcome |-> "throw"]
        ELSE IF Falsy(products) \/ LengthIsZero(products)
        THEN [outcome |-> "400"]
        ELSE LET product == ElementZero(products)
             IN  IF product.kind = "undefined"
                 THEN [outcome |-> "throw"]
                 ELSE LET variants == IF "variants" \in DOMAIN product
                                      THEN product.variants ELSE JsUndefined
                          variant == IF variants.kind = "undefined"
                                     THEN JsUndefined
                                     ELSE ElementZero(variants)
                      IN  IF Falsy(variant)
                          THEN [outcome |-> "400"]
                          ELSE [outcome |-> "variant", variant |-> variant]

Response(status, success, run_id) ==
    [status |-> status, success |-> success, run_id |-> run_id]

\* res.status(400).json({ success: false, ... })
BadRequest == Response(400, FALSE, "")

\* the catch block: res.status(500).json({ success: false, ... })
ServerError == Response(500, FALSE, "")

\* res.json({ success: true, run_id: `cart_${cart.id}`, ... })
Success(cart) == Response(200, TRUE, "cart_" \o cart.id)

NoCart == [id |-> ""]

\* The request's locals: what listProducts gave, the cart created, whether an
\* awaited step threw, and the responses sent.
RouteLocal(listed, cart, threw, sent) ==
    [listed |-> listed, cart |-> cart, threw |-> threw, sent |-> sent]

RouteAt(i, pc) ==
    /\ inv[i].handler = "POST /admin/test-checkout"
    /\ inv[i].pc = pc

\* The request sends r and ends.
Respond(i, local, r) ==
    /\ inv' = [inv EXCEPT ![i].local = [local EXCEPT !.sent = Append(@, r)],
                          ![i].pc = "done", ![i].result = "responded"]
    /\ UNCHANGED <<store, occs, pending, cur, escaped, orderSrc, buVars>>

\* An awaited step throws: the catch block answers 500.
RouteCaught(i) ==
    Respond(i, [inv[i].local EXCEPT !.threw = TRUE], ServerError)

RouteAwait(i, local, pc) ==
    /\ inv' = [inv EXCEPT ![i].local = local, ![i].pc = pc]
    /\ UNCHANGED <<store, occs, pending, cur, escaped, orderSrc, buVars>>

\* A request arrives: resolve the three modules, then await listProducts.
StartTestCheckout ==
    /\ Len(inv) < MaxInv
    /\ \E resolved \in BOOLEAN :
          inv' = Append(inv,
                    [Invocation("POST /admin/test-checkout", "req", resolved,
                                "listProducts")
                       EXCEPT !.local = RouteLocal(JsUndefined, NoCart, ~resolved, <<>>)])
    /\ UNCHANGED <<store, occs, pending, cur, escaped, orderSrc, buVars>>

\* listProducts returns: 400 without product or variant, else await createCarts.
ResumeListProducts(i) ==
    /\ RouteAt(i, "listProducts")
    /\ \/ \E listed \in ListProductsResults :
            \E local \in {[inv[i].local EXCEPT !.listed = listed]} :
            \E sel \in {SelectVariant(listed)} :
                CASE sel.outcome = "400" -> Respond(i, local, BadRequest)
                  [] sel.outcome = "throw" -> Respond(i, local, ServerError)
                  [] sel.outcome = "variant" -> RouteAwait(i, local, "createCarts")
       \/ RouteCaught(i)

\* createCarts returns the new cart; await addLineItems.
ResumeCreateCarts(i) ==
    /\ RouteAt(i, "createCarts")
    /\ \/ \E id \in NewCartIds :
            RouteAwait(i, [inv[i].local EXCEPT !.cart = [id |-> id]], "addLineItems")
       \/ RouteCaught(i)

\* addLineItems returns; await retrieveCart.
ResumeAddLineItems(i) ==
    /\ RouteAt(i, "addLineItems")
    /\ \/ RouteAwait(i, inv[i].local, "retrieveCart")
       \/ RouteCaught(i)

\* retrieveCart returns the updated cart: the success response.
ResumeRetrieveCart(i) ==
    /\ RouteAt(i, "retrieveCart")
    /\ \/ \E updatedCart \in Carts(inv[i].local.cart.id) :
            Respond(i, inv[i].local, Success(inv[i].local.cart))
       \/ RouteCaught(i)

---------------------------------------------------------------------------
(* Direct callers of ensure() (spec 6, 8): nodes x and y of flow "f",      *)
(* y depending on x.  The call's two steps are separate actions here; no   *)
(* other call starts between them.                                         *)

DirectRuns == {"r1", "r2"}

DirectPayloads == {[ok |-> TRUE, v |-> 1], [ok |-> FALSE, v |-> 2]}

DirectCalls ==
    {Call("x", "f", r, d, <<>>, v) :
        r \in DirectRuns, d \in DirectPayloads, v \in {NoValidator, "data_ok", "throws"}}
    \cup
    {Call("y", "f", r, d, <<"x">>, v) :
        r \in DirectRuns, d \in DirectPayloads, v \in {NoValidator, "dep_x_ok"}}

\* The calls of rules 4, 5 and 8 of handleOrderPlaced, made on their own.
ConfirmCalls ==
    {TaxCall(o, "backend") : o \in ConfirmOrders("o1")}
    \cup {PaymentCall(o, "backend") : o \in ConfirmOrders("o1")}
    \cup {OrderConfirmedCall(o, "backend", 0) : o \in ConfirmOrders("o1")}

DirectEnsureConfirm ==
    /\ pending = <<>>
    /\ Len(occs) < MaxCalls
    /\ \E call \in ConfirmCalls : pending' = <<call>>
    /\ UNCHANGED <<store, occs, cur, escaped, inv, orderSrc, buVars>>

DirectEnsure ==
    /\ pending = <<>>
    /\ Len(occs) < MaxCalls
    /\ \E call \in DirectCalls : pending' = <<call>>
    /\ UNCHANGED <<store, occs, cur, escaped, inv, orderSrc, buVars>>

RecordStep ==
    /\ pending # <<>>
    /\ cur = 0
    /\ LET r == RecordOp(Engine, Head(pending))
       IN  /\ store' = r.store
           /\ occs' = r.occs
           /\ cur' = r.cur
    /\ UNCHANGED <<pending, escaped, inv, orderSrc, buVars>>

EvaluateStep ==
    /\ cur # 0
    /\ \E deps \in {ResolveOp(Engine, cur)} :
       \E r \in {EvaluateWith(Engine, cur, deps)} :
           /\ store' = r.store
           /\ occs' = r.occs
           /\ escaped' = (escaped \/ r.propagated)
    /\ cur' = 0
    /\ pending' = <<>>
    /\ UNCHANGED <<inv, orderSrc, buVars>>

---------------------------------------------------------------------------
(* modules/business-use: initializeBusinessUse.  The module calls it once  *)
(* when it is loaded; anything that imports the module may call it again.  *)
(* "" stands for an environment variable that is not set (the empty string *)
(* is falsy as well, and gives the default).                               *)

ApiKeys == {"", "key1"}
Urls == {"", "http://bu:1", "http://bu:2"}

Envs == {[BUSINESS_USE_API_KEY |-> k, BUSINESS_USE_URL |-> u] :
            k \in ApiKeys, u \in Urls}

NoEnv == [BUSINESS_USE_API_KEY |-> "", BUSINESS_USE_URL |-> ""]

\* a || b on strings
OrElse(a, b) == IF a # "" THEN a ELSE b

\* The argument of initialize().
InitConfig(e) ==
    [apiKey |-> OrElse(e.BUSINESS_USE_API_KEY, "test-key"),
     url |-> OrElse(e.BUSINESS_USE_URL, "http://localhost:13370"),
     batchSize |-> 100, batchInterval |-> 5000, maxQueueSize |-> 1000]

\* An initializeBusinessUse that does not look at the initialized flag.
initializeBusinessUseUnguarded(m, e) ==
    [initialized |-> TRUE, sdk |-> Append(m.sdk, InitConfig(e))]

\* m is the module's state, [initialized, sdk]; e is process.env.
initializeBusinessUse(m, e) ==
    IF m.initialized
    THEN m
    ELSE [initialized |-> TRUE, sdk |-> Append(m.sdk, InitConfig(e))]

Module == [initialized |-> initialized, sdk |-> sdk]

CallInitializeBusinessUse(m) ==
    /\ initialized' = m.initialized
    /\ sdk' = m.sdk
    /\ initCalls' = initCalls + 1
    /\ UNCHANGED <<store, occs, pending, cur, escaped, inv, orderSrc, env, helperCalls>>

\* The module is loaded: its last statement calls initializeBusinessUse().
LoadModule ==
    /\ initCalls = 0
    /\ CallInitializeBusinessUse(initializeBusinessUse(Module, env))

\* A later call by an importer of the module.
InitializeAgain ==
    /\ initCalls > 0
    /\ initCalls < MaxInitCalls
    /\ CallInitializeBusinessUse(initializeBusinessUse(Module, env))

\* The environment changes between two calls.
SetEnv ==
    /\ \E e \in Envs \ {env} : env' = e
    /\ UNCHANGED <<store, occs, pending, cur, escaped, inv, orderSrc,
                   initialized, sdk, initCalls, helperCalls>>

---------------------------------------------------------------------------
(* modules/business-use: BusinessUseHelpers called on arbitrary ids.  The  *)
(* ids are strings, with and without the separator the helpers insert.     *)

IdStrings == {"a", "b", "c", "a_b", "b_c"}

HelperCall(helper, args, runId) == [helper |-> helper, args |-> args, runId |-> runId]

CallHelper(call) ==
    /\ Cardinality(helperCalls) < MaxHelperCalls
    /\ helperCalls' = helperCalls \cup {call}
    /\ UNCHANGED <<store, occs, pending, cur, escaped, inv, orderSrc,
                   env, initialized, sdk, initCalls>>

CallGetOrderRunId ==
    \E orderId \in IdStrings :
        CallHelper(HelperCall("getOrderRunId", <<orderId>>, getOrderRunId(orderId)))

CallGetReturnRunId ==
    \E returnId \in IdStrings :
        CallHelper(HelperCall("getReturnRunId", <<returnId>>, getReturnRunId(returnId)))

CallGetLoyaltyRunId ==
    \E customerId \in IdStrings, orderId \in IdStrings :
        CallHelper(HelperCall("getLoyaltyRunId", <<customerId, orderId>>,
                              getLoyaltyRunId(customerId, orderId)))

CallGetInventoryRunId ==
    \E variantId \in IdStrings :
        CallHelper(HelperCall("getInventoryRunId", <<variantId>>,
                              getInventoryRunId(variantId)))

---------------------------------------------------------------------------
(* Specifications.                                                         *)

OrderSources == {"backend", "unnamed"}

\* The subscribers import modules/business-use, so the module is loaded
\* (here with an empty environment) before any of them runs.
Init ==
    /\ store = {}
    /\ occs = <<>>
    /\ pending = <<>>
    /\ cur = 0
    /\ escaped = FALSE
    /\ inv = <<>>
    /\ orderSrc \in OrderSources
    /\ env = NoEnv
    /\ initialized = TRUE
    /\ sdk = <<InitConfig(NoEnv)>>
    /\ initCalls = 1
    /\ helperCalls = {}

Next ==
    \/ StartCartUpdated
    \/ \E i \in DOMAIN inv : ResumeCartUpdated(i)
    \/ StartOrderPlaced
    \/ \E i \in DOMAIN inv : ResumeOrderPlaced(i)
    \/ \E i \in DOMAIN inv : ResumeListOrders(i)
    \/ HandleReturnRequested

Spec == Init /\ [][Next]_vars

InitEngine == Init /\ orderSrc = "backend"

NextEngine == DirectEnsure \/ RecordStep \/ EvaluateStep

SpecEngine == InitEngine /\ [][NextEngine]_vars

\* handleCartUpdated alone, on the wider set of carts.
NextCart ==
    \/ StartCartUpdated
    \/ \E i \in DOMAIN inv : ResumeCartUpdatedWide(i)

SpecCart == Init /\ [][NextCart]_vars

\* handleLoyaltyTracking alone.
NextLoyalty ==
    \/ StartLoyaltyTracking
    \/ \E i \in DOMAIN inv : ResumeLoyaltyOrder(i)
    \/ \E i \in DOMAIN inv : ResumeLoyaltyCustomer(i)
    \/ \E i \in DOMAIN inv : ResumeLoyaltyOrders(i)

SpecLoyalty == Init /\ [][NextLoyalty]_vars

\* handleInventoryUpdate alone.
NextInventory ==
    \/ StartInventoryUpdate
    \/ \E i \in DOMAIN inv : ResumeInventoryItem(i)
    \/ \E i \in DOMAIN inv : ResumeInventoryLevels(i)

SpecInventory == Init /\ [][NextInventory]_vars

\* The engine under the payment and confirmation calls of handleOrderPlaced.
NextConfirm == DirectEnsureConfirm \/ RecordStep \/ EvaluateStep

SpecConfirm == InitEngine /\ [][NextConfirm]_vars

\* All five subscribers on the event bus.
NextAll == Next \/ NextLoyalty \/ NextInventory

SpecAll == Init /\ [][NextAll]_vars

\* The test endpoint, with handleCartUpdated for the carts it creates.
NextRoute ==
    \/ StartTestCheckout
    \/ \E i \in DOMAIN inv : ResumeListProducts(i)
    \/ \E i \in DOMAIN inv : ResumeCreateCarts(i)
    \/ \E i \in DOMAIN inv : ResumeAddLineItems(i)
    \/ \E i \in DOMAIN inv : ResumeRetrieveCart(i)
    \/ StartCartUpdated
    \/ \E i \in DOMAIN inv : ResumeCartUpdated(i)

SpecRoute == Init /\ [][NextRoute]_vars

\* The two subscribers of order.placed.
NextPlaced ==
    \/ StartOrderPlaced
    \/ \E i \in DOMAIN inv : ResumeOrderPlaced(i)
    \/ \E i \in DOMAIN inv : ResumeListOrders(i)
    \/ StartLoyaltyTracking
    \/ \E i \in DOMAIN inv : ResumeLoyaltyOrder(i)
    \/ \E i \in DOMAIN inv : ResumeLoyaltyCustomer(i)
    \/ \E i \in DOMAIN inv : ResumeLoyaltyOrdersFew(i)

SpecPlaced == Init /\ [][NextPlaced]_vars

\* The run-id helpers alone.
NextHelpers ==
    \/ CallGetOrderRunId
    \/ CallGetReturnRunId
    \/ CallGetLoyaltyRunId
    \/ CallGetInventoryRunId

SpecHelpers == Init /\ [][NextHelpers]_vars

\* The subscribers of the loyalty and inventory flows.
NextRules == NextLoyalty \/ NextInventory

SpecRules == Init /\ [][NextRules]_vars

\* modules/business-use from before it is loaded.
InitModule ==
    /\ store = {}
    /\ occs = <<>>
    /\ pending = <<>>
    /\ cur = 0
    /\ escaped = FALSE
    /\ inv = <<>>
    /\ orderSrc = "backend"
    /\ env \in Envs
    /\ initialized = FALSE
    /\ sdk = <<>>
    /\ initCalls = 0
    /\ helperCalls = {}

NextModule == LoadModule \/ InitializeAgain \/ SetEnv

SpecModule == InitModule /\ [][NextModule]_vars

---------------------------------------------------------------------------
(* Properties.                                                             *)

KeyOccs(flow, runId, id) ==
    {p \in DOMAIN occs :
        occs[p].flow = flow /\ occs[p].runId = runId /\ occs[p].id = id}

\* Occurrences of node id recorded before occurrence p in p's flow and run.
Earlier(p, id) == {q \in KeyOccs(occs[p].flow, occs[p].runId, id) : q < p}

Last(S) == CHOOSE p \in S : \A q \in S : q <= p

Stored(flow, runId, id) ==
    {e \in store : e.flow = flow /\ e.runId = runId /\ e.id = id}

CartInvocation(i) ==
    /\ inv[i].handler = "handleCartUpdated"
    /\ inv[i].result = "completed"

\* Two invocations of handleCartUpdated for one cart that were in flight
\* together, retrieved different cart states, and are the only writers of the
\* cart's cart_validated key.
ConcurrentCartPair(i, j) ==
    /\ i < j
    /\ CartInvocation(i)
    /\ CartInvocation(j)
    /\ inv[i].id = inv[j].id
    /\ i \in inv[j].concurrent
    /\ CartValidatedCall(inv[i].local).data # CartValidatedCall(inv[j].local).data
    /\ Cardinality(KeyOccs("checkout", CartRunId(inv[i].local), "cart_validated")) = 2

\* C1: two concurrent ensure() calls for one key with different payloads
\* (the cart_validated calls of two overlapping handleCartUpdated invocations,
\* in either order) leave exactly one stored event for the key, and its data
\* is the whole payload of one of the two calls, the last writer's.
C1_ConcurrentLastWriteWins ==
    \A i, j \in DOMAIN inv :
        ConcurrentCartPair(i, j) =>
            LET runId == CartRunId(inv[i].local)
                S == Stored("checkout", runId, "cart_validated")
                K == KeyOccs("checkout", runId, "cart_validated")
            IN  /\ Cardinality(S) = 1
                /\ \A e \in S :
                      /\ e.data \in {CartValidatedCall(inv[i].local).data,
                                     CartValidatedCall(inv[j].local).data}
                      /\ e.data = occs[Last(K)].data

\* The invocation started first wrote last.
C1_Witness ==
    \E i, j \in DOMAIN inv :
        /\ ConcurrentCartPair(i, j)
        /\ \E e \in Stored("checkout", CartRunId(inv[i].local), "cart_validated") :
              e.data = CartValidatedCall(inv[i].local).data

\* C2: after two or more ensure() calls with one (flow, runId, nodeId), the
\* store holds exactly one event for the key, with the data (and the outcome)
\* of the latest call; nothing of an earlier call remains.
C2_OverwriteKeepsLatest ==
    \A p \in DOMAIN occs :
        LET K == KeyOccs(occs[p].flow, occs[p].runId, occs[p].id)
            S == Stored(occs[p].flow, occs[p].runId, occs[p].id)
        IN  Cardinality(K) >= 2 =>
                /\ Cardinality(S) = 1
                /\ \A e \in S : /\ e.occ = Last(K)
                                /\ e.data = occs[Last(K)].data
                                /\ e.status = occs[Last(K)].status

\* The inventory_reserved calls of an order with two items.
C2_Witness ==
    \E p, q \in DOMAIN occs :
        /\ p < q
        /\ SameKey(occs[p], occs[q])
        /\ occs[p].id = "inventory_reserved"
        /\ occs[p].data # occs[q].data
        /\ \E e \in store : e.occ = q /\ e.data.item_id = "i2"

\* The keys written by the step from occs to occs'.
Written(e) ==
    \E p \in DOMAIN occs' : p > Len(occs) /\ SameKey(occs'[p], e)

\* C3: for ensure() calls with pairwise distinct (flow, runId, nodeId), each
\* call's event is retrieved by its triple with the data of that call, and a
\* step changes no event stored under a triple it does not write.
C3_DistinctKeysIndependent ==
    /\ [](\A p \in DOMAIN occs :
            Cardinality(KeyOccs(occs[p].flow, occs[p].runId, occs[p].id)) = 1 =>
                LET e == Get(store, occs[p].flow, occs[p].runId, occs[p].id)
                IN  /\ e # Absent
                    /\ e.occ = p
                    /\ e.data = occs[p].data)
    /\ [][\A e \in store : ~Written(e) => e \in store']_vars

\* tax_calculated is stored in two runs, each with its own call's data.
C3_Witness ==
    \E p, q \in DOMAIN occs :
        /\ p < q
        /\ occs[p].id = "tax_calculated"
        /\ occs[q].id = "tax_calculated"
        /\ occs[p].runId # occs[q].runId
        /\ Get(store, "checkout", occs[p].runId, "tax_calculated").occ = p
        /\ Get(store, "checkout", occs[q].runId, "tax_calculated").occ = q

\* C4: a depId with no event recorded in the same flow and run when the
\* event is evaluated is left out of ctx.deps (absent), no exception leaves
\* ensure(), and the event is recorded and evaluated all the same.
C4_AbsentDependencyIsNotAnError ==
    /\ ~escaped
    /\ \A p \in DOMAIN occs :
          \A k \in DOMAIN occs[p].depIds :
              Earlier(p, occs[p].depIds[k]) = {} =>
                  /\ occs[p].depIds[k] \notin DepIdsSeen(occs[p].deps)
                  /\ occs[p].validator # NoValidator => occs[p].status \in {"pass", "fail"}
                  /\ p = Last(KeyOccs(occs[p].flow, occs[p].runId, occs[p].id)) =>
                        \E e \in store : e.occ = p /\ e.status = occs[p].status

\* order_confirmed passes although first_order_discount_check is absent.
C4_Witness ==
    \E p \in DOMAIN occs :
        /\ occs[p].id = "order_confirmed"
        /\ Earlier(p, "first_order_discount_check") = {}
        /\ "payment_amount_validation" \in DepIdsSeen(occs[p].deps)
        /\ occs[p].status = "pass"
        /\ \E e \in store : e.occ = p

\* C5: a validator that raises a fault yields the failed outcome "error"; the
\* event stays recorded and nothing propagates out of ensure().
C5_ValidatorFaultIsAFailedOutcome ==
    /\ ~escaped
    /\ \A p \in DOMAIN occs :
          (occs[p].validator = "throws" /\ p # cur) =>
              /\ occs[p].status = "error"
              /\ Violation(occs[p].status)
              /\ p = Last(KeyOccs(occs[p].flow, occs[p].runId, occs[p].id)) =>
                    \E e \in store : e.occ = p /\ e.status = "error"
                                     /\ e.data = occs[p].data

\* The faulting call has returned and a later call was made.
C5_Witness ==
    \E p, q \in DOMAIN occs :
        /\ p < q
        /\ occs[p].validator = "throws"
        /\ occs[p].status = "error"
        /\ \E e \in store : e.occ = p

\* C6: no invocation of a subscriber ends by propagating an exception to the
\* event bus.
C6_NoSubscriberRejects ==
    \A i \in DOMAIN inv : inv[i].result # "rejected"

\* C7: for y with depIds [x]: when x was recorded in the run before y, y's
\* validator sees x in ctx.deps with x's recorded data; when it was not, it
\* sees x absent; either way the evaluation is not blocked and ends with a
\* defined pass/fail outcome.
C7_DependencyOrderings ==
    /\ cur # 0 => ENABLED EvaluateStep
    /\ \A p \in DOMAIN occs :
          (occs[p].id = "y" /\ p # cur) =>
              LET X == Earlier(p, "x")
              IN  /\ X # {} =>
                        /\ occs[p].deps = <<[id |-> "x", data |-> occs[Last(X)].data]>>
                        /\ occs[p].validator = "dep_x_ok" =>
                              occs[p].status = Verdict(occs[Last(X)].data.ok)
                  /\ X = {} =>
                        /\ occs[p].deps = <<>>
                        /\ occs[p].validator = "dep_x_ok" => occs[p].status = "fail"

\* In one run: y before x fails on the absent x, y after x (ok) passes.
C7_Witness ==
    \E p, q, r \in DOMAIN occs :
        /\ p < q /\ q < r
        /\ occs[p].runId = occs[q].runId /\ occs[q].runId = occs[r].runId
        /\ occs[p].id = "y" /\ occs[q].id = "x" /\ occs[r].id = "y"
        /\ occs[p].validator = "dep_x_ok" /\ occs[r].validator = "dep_x_ok"
        /\ occs[q].data.ok
        /\ occs[p].status = "fail"
        /\ occs[r].status = "pass"
        /\ cur = 0

\* The step of occurrence p: unchanged, or evaluated once from Recorded.
OccurrenceStep(p) ==
    \/ occs'[p] = occs[p]
    \/ /\ p = cur
       /\ occs[p].status = "Recorded"
       /\ occs'[p] = [occs[p] EXCEPT !.status = occs'[p].status, !.deps = occs'[p].deps]
       /\ occs[p].validator # NoValidator => occs'[p].status \in Evaluated

\* C8: an occurrence with a validator goes from Recorded to exactly one of
\* pass, fail, error before its ensure() call returns; afterwards it never
\* changes; a later ensure() with the same key creates a new occurrence.
C8_OccurrenceLifecycle ==
    /\ [](\A p \in DOMAIN occs :
            (occs[p].validator # NoValidator /\ p # cur) => occs[p].status \in Evaluated)
    /\ [][/\ \A p \in DOMAIN occs : p \in DOMAIN occs' /\ OccurrenceStep(p)
          /\ (pending # <<>> /\ cur = 0 /\ cur' # 0) =>
                /\ Len(occs') = Len(occs) + 1
                /\ cur' = Len(occs')]_vars

\* Two occurrences of one key, evaluated to different outcomes.
C8_Witness ==
    \E p, q \in DOMAIN occs :
        /\ p < q
        /\ SameKey(occs[p], occs[q])
        /\ occs[p].status = "pass"
        /\ occs[q].status = "fail"
        /\ cur = 0

Telemetry == {"customer_orders", "return_requested"}

\* C9: customer_orders and return_requested, emitted without a validator, are
\* recorded with no pass/fail status: never passed, never a violation.
C9_TelemetryHasNoOutcome ==
    /\ \A p \in DOMAIN occs :
          occs[p].id \in Telemetry =>
              /\ occs[p].status = "Recorded"
              /\ ~Violation(occs[p].status)
    /\ \A e \in store : e.id \in Telemetry => e.status \notin Evaluated

\* customer_orders is stored without outcome although its dependency
\* cart_validated resolved to a failed event.
C9_Witness ==
    \E p \in DOMAIN occs :
        /\ occs[p].id = "customer_orders"
        /\ "cart_validated" \in DepIdsSeen(occs[p].deps)
        /\ \E c \in store : c.id = "cart_validated" /\ c.status = "fail"
        /\ \E e \in store : e.occ = p /\ e.status = "Recorded"

OrderNodes ==
    {"tax_calculated", "payment_amount_validation", "inventory_reserved",
     "customer_orders", "order_confirmed"}

\* C10: when every order retrieved by handleOrderPlaced carries the id of the
\* cart it was created from, the events handleOrderPlaced emits are recorded
\* under the run id handleCartUpdated uses for that cart.
C10_OrderEventsInCartRun ==
    (\A i \in DOMAIN inv :
        (inv[i].handler = "handleOrderPlaced" /\ inv[i].local # NoLocal) =>
            inv[i].local.cart_id \in CartIds)
    => \A p \in DOMAIN occs :
          occs[p].id \in OrderNodes =>
              occs[p].runId \in {CartRunId([id |-> c]) : c \in CartIds}

\* C18: once initializeBusinessUse has been called (the call on module load
\* included), the SDK's initialize() has been called exactly once, with
\* batchSize 100, batchInterval 5000, maxQueueSize 1000 and the API key and
\* URL of the environment of that first call, or their defaults; a call made
\* with the initialized flag set changes neither the flag nor the SDK.
C18_InitializedExactlyOnce ==
    /\ [](initCalls >= 1 =>
            /\ initialized
            /\ Len(sdk) = 1
            /\ sdk[1].batchSize = 100
            /\ sdk[1].batchInterval = 5000
            /\ sdk[1].maxQueueSize = 1000)
    /\ [][(initCalls = 0 /\ initCalls' = 1) =>
            /\ sdk'[1].apiKey = (IF env.BUSINESS_USE_API_KEY = "" THEN "test-key"
                                 ELSE env.BUSINESS_USE_API_KEY)
            /\ sdk'[1].url = (IF env.BUSINESS_USE_URL = "" THEN "http://localhost:13370"
                              ELSE env.BUSINESS_USE_URL)]_vars
    /\ [][initialized => (initialized' /\ sdk' = sdk)]_vars

\* Three calls were made, the later ones under an environment that differs
\* from the one of the first call.
C18_Witness ==
    /\ initCalls >= 3
    /\ Len(sdk) = 1
    /\ sdk[1].apiKey = "test-key"
    /\ env.BUSINESS_USE_API_KEY = "key1"
    /\ sdk[1].url = "http://bu:1"
    /\ env.BUSINESS_USE_URL = "http://bu:2"

\* C13: a cart with items and subtotal - total > 0 makes handleCartUpdated
\* emit discount_validation with discount_percent = (subtotal - total) /
\* subtotal, and the event fails exactly when the discount exceeds 30% of the
\* subtotal.
C13_DiscountLimit ==
    /\ \A i \in DOMAIN inv :
          (/\ CartInvocation(i)
           /\ inv[i].local.items > 0
           /\ OrZero(inv[i].local.subtotal) - OrZero(inv[i].local.total) > 0) =>
              \E p \in DOMAIN occs :
                  /\ occs[p].id = "discount_validation"
                  /\ occs[p].flow = "checkout"
                  /\ occs[p].runId = CartRunId(inv[i].local)
                  /\ occs[p].data.subtotal = OrZero(inv[i].local.subtotal)
                  /\ occs[p].data.total = OrZero(inv[i].local.total)
    /\ \A p \in DOMAIN occs :
          occs[p].id = "discount_validation" =>
              LET d == occs[p].data
              IN  /\ d.total_discount = d.subtotal - d.total
                  /\ d.discount_percent[1] * d.subtotal
                        = d.total_discount * d.discount_percent[2]
                  /\ d.discount_percent[2] > 0
                  /\ occs[p].status =
                        (IF d.total_discount * 100 > 30 * d.subtotal
                         THEN "fail" ELSE "pass")

\* A discount of 30 on 100 passed and a discount of 40 on 100 failed.
C13_Witness ==
    \E p, q \in DOMAIN occs :
        /\ occs[p].id = "discount_validation"
        /\ occs[q].id = "discount_validation"
        /\ occs[p].data.subtotal = 100 /\ occs[p].data.total_discount = 30
        /\ occs[p].status = "pass"
        /\ occs[q].data.subtotal = 100 /\ occs[q].data.total_discount = 40
        /\ occs[q].status = "fail"

\* C14: cart_validated passes only for a cart with at least one item and a
\* positive total; an empty cart, and a cart with items whose total is 0 or
\* missing, are recorded as violations.
C14_CartValidatedNeedsItemsAndTotal ==
    \A i \in DOMAIN inv :
        CartInvocation(i) =>
            \A p \in DOMAIN occs :
                (/\ occs[p].id = "cart_validated"
                 /\ occs[p].data = CartValidatedCall(inv[i].local).data) =>
                    occs[p].status =
                        (IF inv[i].local.items > 0 /\ OrZero(inv[i].local.total) > 0
                         THEN "pass" ELSE "fail")

\* An invocation of handleLoyaltyTracking that made its ensure() calls.
LoyaltyInvocation(i) ==
    /\ inv[i].handler = "handleLoyaltyTracking"
    /\ inv[i].result = "completed"
    /\ inv[i].local.order.customer_id # ""

\* The sum of the totals that are present.
RECURSIVE SumPresent(_)
SumPresent(orders) ==
    IF orders = <<>> THEN 0
    ELSE (IF Head(orders).kind = "number" THEN Head(orders).value ELSE 0)
         + SumPresent(Tail(orders))

\* C15: should_be_vip is true exactly when the totals of the customer's
\* orders, a missing total counting 0, sum to at least 100000 cents or the
\* customer has at least 5 orders.
C15_VipThreshold ==
    /\ \A i \in DOMAIN inv :
          LoyaltyInvocation(i) =>
              \E p \in DOMAIN occs :
                  /\ occs[p].id = "vip_status_check"
                  /\ occs[p].data.order_count = Len(inv[i].local.orders)
                  /\ occs[p].data.lifetime_spent = SumPresent(inv[i].local.orders)
                  /\ occs[p].data.should_be_vip =
                        (\/ SumPresent(inv[i].local.orders) >= 100000
                         \/ Len(inv[i].local.orders) >= 5)
    /\ \A p \in DOMAIN occs :
          occs[p].id = "vip_status_check" =>
              occs[p].data.should_be_vip =
                  (occs[p].data.lifetime_spent >= 100000 \/ occs[p].data.order_count >= 5)

\* VIP by spend alone (exactly $1000 over three orders, one without total),
\* and not VIP just below both thresholds.
C15_Witness ==
    \E p, q \in DOMAIN occs :
        /\ occs[p].id = "vip_status_check"
        /\ occs[p].data.lifetime_spent = 100000
        /\ occs[p].data.order_count = 3
        /\ occs[p].data.should_be_vip
        /\ occs[q].id = "vip_status_check"
        /\ occs[q].data.lifetime_spent = 99999
        /\ ~occs[q].data.should_be_vip

\* C16: earned points are floor(order total / 100), doubled for a VIP, an
\* order without total earning 0; and points_earned passes for every order.
C16_PointsEarnedAlwaysPasses ==
    \A p \in DOMAIN occs :
        occs[p].id = "points_earned" =>
            /\ occs[p].data.earned_points =
                  (IF occs[p].data.order_total.kind = "number"
                   THEN occs[p].data.order_total.value \div 100
                   ELSE 0)
                  * (IF occs[p].data.is_vip THEN 2 ELSE 1)
            /\ occs[p].status = "pass"

\* The node ids handleInventoryUpdate has to emit, in order, for a stock.
InventoryNodesFor(stock) ==
    IF stock <= 4
    THEN <<"stock_level_checked", "low_stock_alert", "reorder_triggered">>
    ELSE <<"stock_level_checked">>

\* Invocation i of handleInventoryUpdate gets the levels of its item in this
\* step, and there is at least one level.
GetsLevels(i) ==
    /\ inv[i].handler = "handleInventoryUpdate"
    /\ inv[i].pc = "listInventoryLevels"
    /\ inv'[i].result = "completed"
    /\ inv'[i].local.levels # <<>>

\* C17: for an item with at least one level, handleInventoryUpdate emits
\* stock_level_checked first; it emits low_stock_alert exactly when the summed
\* stocked quantity is at most 4; it emits reorder_triggered exactly then,
\* after low_stock_alert and in the same run, with reorder_quantity three
\* times the average monthly sales.
C17_InventoryAlerts ==
    [][\A i \in DOMAIN inv :
          GetsLevels(i) =>
              LET new == SubSeq(occs', Len(occs) + 1, Len(occs'))
                  stock == SumPresent(inv'[i].local.levels)
              IN  /\ [k \in DOMAIN new |-> new[k].id] = InventoryNodesFor(stock)
                  /\ \A k \in DOMAIN new :
                        /\ new[k].flow = "inventory"
                        /\ new[k].runId = new[1].runId
                  /\ new[1].data.total_stock = stock
                  /\ stock <= 4 =>
                        new[3].data.reorder_quantity
                            = 3 * new[3].data.avg_monthly_sales]_vars

\* A stock of 4 raised the alert and the reorder; then a stock of 5 was only
\* checked.
C17_Witness ==
    /\ Len(occs) = 4
    /\ occs[1].id = "stock_level_checked" /\ occs[1].data.total_stock = 4
    /\ occs[2].id = "low_stock_alert"
    /\ occs[3].id = "reorder_triggered" /\ occs[3].data.reorder_quantity = 30
    /\ occs[4].id = "stock_level_checked" /\ occs[4].data.total_stock = 5
    /\ \A i \in DOMAIN inv : inv[i].pc = "done"

\* C11: at every ensure() call of the subscribers, each node id of depIds has
\* been recorded before in the same flow and run.
C11_DependenciesAlreadyRecorded ==
    \A p \in DOMAIN occs :
        \A k \in DOMAIN occs[p].depIds :
            Earlier(p, occs[p].depIds[k]) # {}

\* The upstream rules of order_confirmed.
UpstreamRules == {"tax_calculated", "payment_amount_validation", "inventory_reserved"}

\* C19: order_confirmed passes only if tax_calculated,
\* payment_amount_validation and inventory_reserved are in the run and passed.
C19_ConfirmedOnlyIfUpstreamPassed ==
    \A p \in DOMAIN occs :
        (occs[p].id = "order_confirmed" /\ occs[p].status = "pass") =>
            \A u \in UpstreamRules :
                /\ Earlier(p, u) # {}
                /\ occs[Last(Earlier(p, u))].status = "pass"

\* C20: without payment_amount_validation among its resolved dependencies
\* order_confirmed fails, and no fault is raised; with it, order_confirmed
\* passes exactly when that event's payment_total is less than 100 cents away
\* from the order total (from no total, nothing is).
C20_ConfirmationReadsPayment ==
    /\ ~escaped
    /\ \A p \in DOMAIN occs :
          (occs[p].id = "order_confirmed" /\ p # cur) =>
              LET P == Earlier(p, "payment_amount_validation")
                  total == occs[p].data.order_total
                  diff == total.value - occs[Last(P)].data.payment_total
              IN  /\ P = {} =>
                        /\ "payment_amount_validation" \notin DepIdsSeen(occs[p].deps)
                        /\ occs[p].status = "fail"
                  /\ P # {} =>
                        /\ "payment_amount_validation" \in DepIdsSeen(occs[p].deps)
                        /\ occs[p].status =
                              (IF /\ total.kind = "number"
                                  /\ -100 < diff /\ diff < 100
                               THEN "pass" ELSE "fail")

\* One run where order_confirmed failed for lack of the payment event, then
\* passed once a payment 99 cents off had been recorded.
C20_Witness ==
    \E p, q, r \in DOMAIN occs :
        /\ p < q /\ q < r
        /\ occs[p].runId = occs[q].runId /\ occs[q].runId = occs[r].runId
        /\ occs[p].id = "order_confirmed" /\ occs[p].status = "fail"
        /\ occs[q].id = "payment_amount_validation"
        /\ occs[q].data.payment_total = 207
        /\ occs[r].id = "order_confirmed" /\ occs[r].status = "pass"
        /\ cur = 0

\* The dependency graph of the calls made so far: <<flow, node, dependency>>.
DepEdges ==
    UNION {{<<occs[p].flow, occs[p].id, occs[p].depIds[k]>> :
                k \in DOMAIN occs[p].depIds} : p \in DOMAIN occs}

\* Transitive closure, flow by flow.
RECURSIVE Closure(_)
Closure(R) ==
    LET step == {<<a[1], a[2], b[3]>> :
                    <<a, b>> \in {x \in R \X R : x[1][1] = x[2][1] /\ x[1][3] = x[2][2]}}
    IN  IF step \subseteq R THEN R ELSE Closure(R \cup step)

\* C12: the dependency graph that the depIds of the ensure() calls form in a
\* flow is acyclic: no node id depends on itself, directly or transitively.
C12_DependencyGraphIsAcyclic ==
    \A e \in Closure(DepEdges) : e[2] # e[3]

\* The cart and order subscribers have made every call of the checkout flow:
\* the graph holds its ten edges and paths of two and three of them, such as
\* order_confirmed -> payment_amount_validation -> tax_calculated -> cart_validated.
C12_Witness ==
    /\ Cardinality({e \in DepEdges : e[1] = "checkout"}) >= 10
    /\ <<"checkout", "order_confirmed", "cart_validated">> \in Closure(DepEdges)
    /\ <<"checkout", "payment_amount_validation", "cart_validated">> \in Closure(DepEdges)
    /\ <<"checkout", "payment_amount_validation", "cart_validated">> \notin DepEdges
    /\ <<"checkout", "discount_validation", "cart_validated">> \in DepEdges

\* The products of a listProducts result, whichever of the two shapes it has.
ProductsListed(listed) ==
    IF Len(listed.elems) > 0 /\ listed.elems[1].kind = "array"
    THEN listed.elems[1].elems
    ELSE listed.elems

HasVariant(product) ==
    /\ product.variants.kind = "array"
    /\ Len(product.variants.elems) > 0

NoProductOrVariant(listed) ==
    \/ ProductsListed(listed) = <<>>
    \/ ~HasVariant(ProductsListed(listed)[1])

TestCheckoutDone(i) == RouteAt(i, "done")

\* C21: every POST /admin/test-checkout request gets exactly one response:
\* 500 with success=false when a step threw; 400 with success=false and no
\* cart created when there is no product or the first product has no variant;
\* otherwise success=true with run_id 'cart_' + the id of the cart created,
\* the run id of the events handleCartUpdated records for that cart.
C21_OneResponsePerRequest ==
    \A i \in DOMAIN inv :
        TestCheckoutDone(i) =>
            LET l == inv[i].local
            IN  /\ Len(l.sent) = 1
                /\ IF l.threw
                   THEN l.sent[1] = ServerError
                   ELSE IF NoProductOrVariant(l.listed)
                   THEN l.sent[1] = BadRequest /\ l.cart = NoCart
                   ELSE /\ l.sent[1].status = 200
                        /\ l.sent[1].success
                        /\ l.cart # NoCart
                        /\ l.sent[1].run_id = "cart_" \o l.cart.id
                        /\ \A p \in DOMAIN occs :
                              (occs[p].id = "cart_validated"
                               /\ occs[p].data.cart_id = l.cart.id)
                                  => occs[p].runId = l.sent[1].run_id

OrderNodeIds ==
    {"tax_calculated", "payment_amount_validation", "inventory_reserved",
     "customer_orders", "order_confirmed"}

\* The occurrences handleOrderPlaced has created, in call order.
OrderOccs == SelectSeq(occs, LAMBDA o : o.id \in OrderNodeIds)

OrderPlacedInvocations == {i \in DOMAIN inv : inv[i].handler = "handleOrderPlaced"}

\* The node ids an invocation has issued once it is at pc with result res.
IssuedIds(order, pc, res) ==
    LET first == <<"tax_calculated", "payment_amount_validation">>
                 \o [k \in DOMAIN order.items |-> "inventory_reserved"]
    IN  IF pc = "listOrders" THEN first
        ELSE IF res = "completed" THEN first \o <<"customer_orders", "order_confirmed">>
        ELSE <<>>

\* The occurrences of node id issued before occurrence q for the order and in
\* the run of occurrence p.
IssuedBefore(q, p, id) ==
    {t \in Earlier(p, id) : t < q /\ occs[t].data.order_id = occs[p].data.order_id}

\* C22: one invocation of handleOrderPlaced issues tax_calculated,
\* payment_amount_validation, inventory_reserved once per item, customer_orders
\* and order_confirmed in this order and under one run id (checked on the
\* invocation's own calls when it is the only one of the handler, whatever
\* other subscribers interleave with it); so every order_confirmed occurrence
\* has tax_calculated, payment_amount_validation and customer_orders
\* occurrences before it in its run.
C22_OrderPlacedCallOrder ==
    /\ \A i \in OrderPlacedInvocations :
          (OrderPlacedInvocations = {i} /\ inv[i].local # NoLocal) =>
              LET issued == OrderOccs
              IN  /\ [k \in DOMAIN issued |-> issued[k].id]
                        = IssuedIds(inv[i].local, inv[i].pc, inv[i].result)
                  /\ \A k \in DOMAIN issued :
                        /\ issued[k].runId = issued[1].runId
                        /\ issued[k].data.order_id = inv[i].id
    /\ \A p \in DOMAIN occs :
          occs[p].id = "order_confirmed" =>
              \E c \in IssuedBefore(p, p, "customer_orders") :
              \E m \in IssuedBefore(c, p, "payment_amount_validation") :
                  IssuedBefore(m, p, "tax_calculated") # {}

\* The only invocation of handleOrderPlaced has completed across its await of
\* listOrders, and a cart_validated occurrence of another subscriber lies
\* between its inventory_reserved and customer_orders calls.
C22_Witness ==
    \E i \in OrderPlacedInvocations :
        /\ OrderPlacedInvocations = {i}
        /\ inv[i].result = "completed"
        /\ inv[i].local.customer_id # ""
        /\ \E a, b, c \in DOMAIN occs :
              /\ a < b
              /\ b < c
              /\ occs[a].id = "inventory_reserved"
              /\ occs[b].id = "cart_validated"
              /\ occs[c].id = "customer_orders"

\* listOrders fails for invocation i of handleOrderPlaced in this step.
ListOrdersFails(i) ==
    /\ inv[i].handler = "handleOrderPlaced"
    /\ inv[i].pc = "listOrders"
    /\ ListOrdersThrows(i)

EarlierRules == {"tax_calculated", "payment_amount_validation", "inventory_reserved"}

\* C23: when listing the customer's orders fails, handleOrderPlaced goes on:
\* it emits customer_orders with is_first_order = false and total_orders = 0,
\* then order_confirmed, in the invocation's run, and completes; the
\* occurrences and the stored events of tax_calculated,
\* payment_amount_validation and inventory_reserved stay as they were.
C23_ListOrdersFailureIsSkipped ==
    [][\A i \in DOMAIN inv :
          ListOrdersFails(i) =>
              LET new == SubSeq(occs', Len(occs) + 1, Len(occs'))
              IN  /\ [k \in DOMAIN new |-> new[k].id]
                        = <<"customer_orders", "order_confirmed">>
                  /\ new[1].data.is_first_order = FALSE
                  /\ new[1].data.total_orders = 0
                  /\ \A k \in DOMAIN new :
                        /\ new[k].data.order_id = inv[i].local.id
                        /\ \E q \in DOMAIN occs :
                              /\ occs[q].id = "tax_calculated"
                              /\ occs[q].data.order_id = inv[i].local.id
                              /\ occs[q].runId = new[k].runId
                  /\ \E e \in store' :
                        /\ e.id = "customer_orders"
                        /\ e.runId = new[1].runId
                        /\ e.data = new[1].data
                  /\ inv'[i].result = "completed"
                  /\ SubSeq(occs', 1, Len(occs)) = occs
                  /\ {e \in store : e.id \in EarlierRules}
                        = {e \in store' : e.id \in EarlierRules}]_vars

\* An order of a customer was confirmed after listOrders failed: its
\* customer_orders event counts no order, behind the three earlier rules.
C23_Witness ==
    \E i \in DOMAIN inv, p \in DOMAIN occs :
        /\ inv[i].handler = "handleOrderPlaced"
        /\ inv[i].result = "completed"
        /\ inv[i].local.customer_id # ""
        /\ occs[p].id = "customer_orders"
        /\ occs[p].data.customer_id # ""
        /\ occs[p].data.total_orders = 0
        /\ \A r \in EarlierRules : Earlier(p, r) # {}
        /\ \E q \in DOMAIN occs : q > p /\ occs[q].id = "order_confirmed"

\* C24: in the run of an inventory item, a low_stock_alert or
\* reorder_triggered event is stored only if the stock of the stored
\* stock_level_checked event is at or below the low-stock threshold: no alert
\* of an earlier update is left once the stock is above it.
C24_NoStaleInventoryAlert ==
    \A a \in store :
        (a.flow = "inventory" /\ a.id \in {"low_stock_alert", "reorder_triggered"}) =>
            \E c \in Stored("inventory", a.runId, "stock_level_checked") :
                c.data.total_stock <= lowStockThreshold

\* The subtotal an event of the cart was computed from: discount_validation
\* carries it as cart_validated does, free_shipping_eligibility as it was read.
SubtotalOf(e) ==
    IF e.id = "free_shipping_eligibility" THEN OrZero(e.data.subtotal)
    ELSE e.data.subtotal

\* C25: the discount_validation and free_shipping_eligibility events stored in
\* a cart's run describe the cart state of the stored cart_validated event
\* (the same subtotal): none is left from an earlier state of the cart.
C25_CartEventsDescribeOneState ==
    \A e \in store :
        (e.flow = "checkout"
         /\ e.id \in {"discount_validation", "free_shipping_eligibility"}) =>
            \E c \in Stored("checkout", e.runId, "cart_validated") :
                c.data.subtotal = SubtotalOf(e)

InventoryReservedOccs == SelectSeq(occs, LAMBDA o : o.id = "inventory_reserved")

\* C26: handleOrderPlaced emits one inventory_reserved occurrence per item of
\* the order, all under one key (checked when the invocation is the only one
\* of the handler); each occurrence is evaluated on its own item's quantity;
\* the run stores a single inventory_reserved event, with the data and the
\* outcome of the last item.
C26_LastItemReservationStored ==
    /\ \A i \in OrderPlacedInvocations :
          (OrderPlacedInvocations = {i} /\ inv[i].local # NoLocal) =>
              LET reserved == InventoryReservedOccs
              IN  /\ Len(reserved) = Len(inv[i].local.items)
                  /\ \A k \in DOMAIN reserved :
                        /\ reserved[k].data.item_id = inv[i].local.items[k].id
                        /\ reserved[k].data.ordered_quantity
                              = inv[i].local.items[k].quantity
                        /\ SameKey(reserved[k], reserved[1])
    /\ \A p \in DOMAIN occs :
          occs[p].id = "inventory_reserved" =>
              /\ occs[p].status = Verdict(occs[p].data.ordered_quantity.value > 0)
              /\ LET K == KeyOccs(occs[p].flow, occs[p].runId, "inventory_reserved")
                     S == Stored(occs[p].flow, occs[p].runId, "inventory_reserved")
                 IN  /\ Cardinality(S) = 1
                     /\ \A e \in S :
                           /\ e.data = occs[Last(K)].data
                           /\ e.status = occs[Last(K)].status

\* An order of two items whose first quantity is 0: the first occurrence
\* failed, the second passed, and the stored event is the second item's.
C26_Witness ==
    \E i \in OrderPlacedInvocations :
        /\ OrderPlacedInvocations = {i}
        /\ inv[i].result = "completed"
        /\ Len(InventoryReservedOccs) = 2
        /\ InventoryReservedOccs[1].status = "fail"
        /\ InventoryReservedOccs[2].status = "pass"
        /\ \A e \in Stored("checkout", InventoryReservedOccs[1].runId, "inventory_reserved") :
              e.status = "pass" /\ e.data.item_id = inv[i].local.items[2].id

\* Invocation i takes a step.
Moves(i) == inv'[i] # inv[i]

OtherFlows(st, flow) == {e \in st : e.flow # flow}

\* The flows of the events an occurrence was given as ctx.deps.
DepsWithin(o, ids) == \A k \in DOMAIN o.deps : o.deps[k].id \in ids

CheckoutNodeIds ==
    OrderNodeIds \cup {"cart_validated", "discount_validation",
                       "free_shipping_eligibility", "first_order_discount_check"}

LoyaltyNodeIds == {"vip_status_check", "points_earned"}

\* C27: handleOrderPlaced and handleLoyaltyTracking run for the same order in
\* any interleaving without sharing a key.  A step of the first creates
\* occurrences only in flow checkout, under cart_<cart id> or order_<id>, and
\* changes and reads no event outside that flow; a step of the second creates
\* occurrences only in flow loyalty, under loyalty_<customer>_<order>, and
\* changes and reads no event outside that flow.
C27_OrderAndLoyaltyKeysDisjoint ==
    [][\A i \in DOMAIN inv :
          Moves(i) =>
              LET new == SubSeq(occs', Len(occs) + 1, Len(occs'))
              IN  /\ inv[i].handler = "handleOrderPlaced" =>
                        /\ \A k \in DOMAIN new :
                              /\ new[k].flow = "checkout"
                              /\ new[k].runId \in
                                    {"order_" \o inv[i].id}
                                    \cup {"cart_" \o c : c \in CartIds}
                              /\ DepsWithin(new[k], CheckoutNodeIds)
                        /\ OtherFlows(store', "checkout") = OtherFlows(store, "checkout")
                  /\ inv[i].handler = "handleLoyaltyTracking" =>
                        /\ \A k \in DOMAIN new :
                              /\ new[k].flow = "loyalty"
                              /\ new[k].runId =
                                    "loyalty_" \o inv'[i].local.customer.id
                                    \o "_" \o inv[i].id
                              /\ DepsWithin(new[k], LoyaltyNodeIds)
                        /\ OtherFlows(store', "loyalty") = OtherFlows(store, "loyalty")
                  /\ \A k \in DOMAIN new : \A q \in DOMAIN occs :
                        occs[q].flow # new[k].flow => ~SameKey(occs[q], new[k])]_vars

\* Both subscribers ran for order o1 and overlapped: the loyalty events were
\* written between the two segments of handleOrderPlaced.
C27_Witness ==
    \E i, j \in DOMAIN inv :
        /\ inv[i].handler = "handleOrderPlaced"
        /\ inv[j].handler = "handleLoyaltyTracking"
        /\ inv[i].id = inv[j].id
        /\ inv[i].result = "completed"
        /\ inv[j].result = "completed"
        /\ \E a, b, c \in DOMAIN occs :
              /\ a < b
              /\ b < c
              /\ occs[a].id = "payment_amount_validation"
              /\ occs[b].id = "points_earned"
              /\ occs[c].id = "order_confirmed"

\* Invocation i of handleLoyaltyTracking has listed the customer's orders and
\* completed.
LoyaltyCompletedWithCustomer(i) ==
    /\ inv[i].handler = "handleLoyaltyTracking"
    /\ inv[i].result = "completed"
    /\ inv[i].local.order.customer_id # ""

\* C28: for a guest order handleLoyaltyTracking ends without any event; for
\* an order with a customer it emits vip_status_check and then points_earned
\* in one run of flow loyalty, once the order, the customer and the orders are
\* retrieved; a step that does not complete this, a failed retrieval
\* included, emits nothing, and a failed invocation has ended.
C28_LoyaltyEmitsBothOrNothing ==
    /\ [](Len(occs) = 2 * Cardinality({i \in DOMAIN inv : LoyaltyCompletedWithCustomer(i)}))
    /\ [][\A i \in DOMAIN inv :
            (Moves(i) /\ inv[i].handler = "handleLoyaltyTracking") =>
                LET new == SubSeq(occs', Len(occs) + 1, Len(occs'))
                IN  /\ IF inv[i].pc = "listOrders" /\ inv'[i].result = "completed"
                       THEN /\ [k \in DOMAIN new |-> new[k].id]
                                  = <<"vip_status_check", "points_earned">>
                            /\ \A k \in DOMAIN new :
                                  /\ new[k].flow = "loyalty"
                                  /\ new[k].runId = new[1].runId
                            /\ inv'[i].local.order.customer_id # ""
                       ELSE new = <<>>
                    /\ inv'[i].result = "caught" => inv'[i].pc = "done"
                    /\ (inv[i].pc = "retrieveOrder" /\ inv'[i].result # "caught") =>
                          (inv'[i].pc = "done") = (inv'[i].local.order.customer_id = "")]_vars

\* A guest order ended without an event, and an order of a customer produced
\* the two loyalty events.
C28_Witness ==
    /\ Len(occs) = 2
    /\ occs[1].id = "vip_status_check"
    /\ occs[2].id = "points_earned"
    /\ \E i, j \in DOMAIN inv :
          /\ LoyaltyCompletedWithCustomer(i)
          /\ inv[j].handler = "handleLoyaltyTracking"
          /\ inv[j].result = "completed"
          /\ inv[j].local.order.customer_id = ""

\* C29: every run-id helper maps different arguments to different run ids:
\* two calls of one helper that return the same run id had the same
\* arguments, whatever the id strings, those containing '_' included.
C29_RunIdHelpersInjective ==
    \A x, y \in helperCalls :
        (x.helper = y.helper /\ x.runId = y.runId) => x.args = y.args

SelfCheckedNodes == {"vip_status_check", "low_stock_alert", "reorder_triggered"}

\* C30: the validators of vip_status_check, low_stock_alert and
\* reorder_triggered never report a violation: every occurrence of these
\* nodes that handleLoyaltyTracking and handleInventoryUpdate create, and
\* every event stored for them, has the outcome pass.
C30_SelfCheckedRulesPass ==
    /\ \A p \in DOMAIN occs :
          occs[p].id \in SelfCheckedNodes => occs[p].status = "pass"
    /\ \A e \in store :
          e.id \in SelfCheckedNodes => e.status = "pass"

\* A customer exactly at the VIP threshold and a stock exactly at the
\* low-stock threshold: the three nodes were evaluated.
C30_Witness ==
    \E v, a, r \in DOMAIN occs :
        /\ occs[v].id = "vip_status_check"
        /\ occs[v].data.lifetime_spent = 100000
        /\ occs[v].data.should_be_vip
        /\ occs[a].id = "low_stock_alert"
        /\ occs[a].data.current_stock = occs[a].data.threshold
        /\ occs[r].id = "reorder_triggered"
        /\ \A p \in {v, a, r} : occs[p].status \in Evaluated

====
